---- MODULE Spec2Model ----
(***************************************************************************)
(* Verification model of the task orchestration and detection pipeline of  *)
(* ai_edge: the threaded TaskScheduler / TaskExecutor                      *)
(* (src/src/components/task_scheduler.py), the frame sources               *)
(* (src/src/components/video_input.py, src/api/main.py), the engine        *)
(* factory (src/src/inference/factory.py) and the alert debouncer          *)
(* (src/src/components/alert_manager.py).                                  *)
(***************************************************************************)
EXTENDS Integers, Sequences, FiniteSets, TLC

(***************************************************************************)
(* Bounds                                                                  *)
(***************************************************************************)
\* number of TaskExecutor objects that may be constructed in one behaviour
MaxExecutors == 2
\* number of requests (enable, disable, manual start, manual stop) the request
\* layer makes in one behaviour
MaxRequests == 1

TaskIds == {1, 2}
Eids == 1..MaxExecutors
Callers == {"sched", "api"}

VARIABLES
    \* ---- task store (database rows + model artifacts) ----
    store,          \* [TaskIds -> [present, is_enabled, status, model_ok]]
    \* ---- TaskScheduler ----
    is_running,     \* TaskScheduler.is_running
    executors,      \* TaskScheduler.executors: task id -> executor id, 0 = no entry
    \* ---- TaskExecutor objects ----
    ex,             \* [Eids -> [task, is_running, thread, reader, proc]]
    \* ---- threads of control: the scheduler thread and the API (event loop) thread ----
    pc,             \* [Callers -> control point]
    cur,            \* [Callers -> task id the caller is working on, 0 = none]
    ceid,           \* [Callers -> executor the caller holds in a local variable, 0 = none]
    sch_tasks,      \* `tasks` of the current tick: task id -> "absent"/"disabled"/"enabled"
    sch_todo,       \* rest of `for task in tasks`
    sch_stop,       \* rest of `for task_id in running_task_ids - active_task_ids`
    api_list,       \* rest of `for executor in list(self.executors.values())` in stop()
    api_ret,        \* the scheduler method the API thread called last and how it ended
    requests,       \* number of requests made so far
    tick_store_changed, \* the store was written by someone else since the tick's fetch
    tick_api_acted,     \* the API thread took a step since the tick's fetch
    \* ---- alert path: DebounceManager, AlertManager, the detection loops ----
    now,            \* time.time(), in seconds
    debounce_time,  \* DebounceManager.debounce_time
    alert_history,  \* DebounceManager.alert_history: alert key -> last alert time
    calls,          \* the should_alert calls made so far: <<key, time, returned>>
    task,           \* the task being executed: threshold, debounce interval, ROI of
                    \* its source, and the program running it ("thread": the threaded
                    \* scheduler, "process": the process model)
    alerts,         \* rows of the alerts table: [class_name, t, path]
    first_seen,     \* class -> time of the first frame with a qualifying detection
    last_frame,     \* detections the engine returned for the last frame
    last_path,      \* which loop processed it: "thread", "process" or "none"
    passed,         \* detections of the last frame that reached alert processing
    subscribed,     \* detections of the last frame put on the subscribers' queue
    \* ---- frame sources: the two VideoCapture classes ----
    fs_class,       \* "grabber": VideoCapture of src/api/main.py,
                    \* "threaded": VideoCapture of video_input.py, "none"
    source_up,      \* the camera or file can be opened and read right now
    ever_up,        \* it could be opened or read at some moment since construction
    cap_opened,     \* the capture object is open (cap.isOpened() / is_opened)
    fs_running,     \* VideoCapture.running
    fs_thread,      \* reader thread: "none", "read", "reopen", "dead"
    reopens,        \* number of times the reader has opened the source again
    has_frame,      \* a frame is buffered (q / last_frame)
    \* ---- engine creation in TaskExecutor._initialize ----
    config_platform,    \* the 'platform' setting: [kind, name]
    engines,            \* InferenceFactory._engines: the registered platforms
    ctor_ok,            \* the engine class's constructor does not raise
    model_loads,        \* load_model(model_path) of a created engine returns True
    init_pc,            \* where _initialize is: "platform", "create", "load", "done", "raised"
    platform,           \* the local variable `platform`
    inference_engine,   \* self.inference_engine: "None" or the platform it was made for
    \* ---- schedule windows ----
    clock,          \* hour of the day
    schedule,       \* the task's schedule: [schedule_type, start_time, end_time]
    loop,           \* what _execution_loop last decided, and at which hour
    proc_started,   \* sync_and_schedule_all_tasks started the task's process
    \* ---- one executor's detection loop and TaskExecutor.stop ----
    lx_kind,        \* "thread": TaskExecutor._execution_loop, "process":
                    \* the loop of run_task_in_background, "none"
    lx_running,     \* TaskExecutor.is_running; for the process, the stored task
                    \* is enabled with status 'running'
    lx_pc,          \* the loop: "top", "sources", "pause", "backoff", "idle", "exited"
    lx_wake,        \* when the time.sleep the loop is in ends
    lx_now,         \* time.time(), in tenths of a second
    lx_current_time,    \* the local variable current_time of the pass
    lx_todo,        \* rest of `for source_url, processor in ...items()`
    last_detection_time,    \* self.last_detection_time: source -> time
    lx_inferred,    \* source -> the times of its last two inferences
    lx_in_window,   \* what _is_in_execution_time() returns
    lx_iterations,  \* passes of the loop so far
    lx_stop,        \* the caller of TaskExecutor.stop: "idle", "join", "returned"
    lx_deadline,    \* when execution_thread.join(timeout=5.0) gives up
    lx_readers,     \* source -> its reader thread: "alive", "stopreq", "dead"
    inference_interval, \* task.inference_interval, in tenths of a second
    \* ---- TaskExecutor._initialize: the model, the engine, the video sources ----
    ct_model,       \* "ok", "missing", "engine_fails" or "load_fails"
    ct_sources,     \* task.video_sources: what each entry is like
    ct_pc,          \* where _initialize is: "model", "engine", "sources", "done", "raised"
    ct_i,           \* index of the video source the for loop is at
    ct_processors,  \* indexes of the sources in self.video_processors
    ct_open,        \* indexes of the sources whose capture is open
    ct_readers,     \* indexes of the sources whose reader thread runs
    \* ---- PushNotificationManager.push_alert ----
    pushers,        \* self.pushers: the configured protocols
    push_pc,        \* push_alert: "idle", "loop", "returned", "raised"
    push_todo,      \* rest of `for protocol, pusher in self.pushers.items()`
    push_outcomes,  \* protocol -> what its pusher.push did in this call
    results,        \* the dict push_alert builds: protocol -> success
    \* ---- one frame source, its reader, its consumer and its decoder handle ----
    cp_class,       \* "threaded": VideoCapture of video_input.py,
                    \* "grabber": VideoCapture of src/api/main.py, "none"
    cp_source_ok,   \* the source delivers frames right now
    cp_decoded,     \* number of the last frame the decoder has delivered
    cp_slot,        \* number of the frame in last_frame / q, 0 = none
    cp_got,         \* the frames read() has handed to the consumer, in order
    cp_read,        \* the last read(): [ret, failing]: what it returned, and
                    \* whether the reader's last decode had failed
    cp_failed,      \* the reader's last decode failed
    cp_running,     \* VideoCapture.running
    cp_reader,      \* the reader: "loop", "decode", "reopen", "dead"
    cp_handle,      \* self.cap: "open", "closed" (could not be opened), "released"
    cp_releases,    \* number of times the handle has been released
    cp_stop,        \* the caller of stop() / release(): "idle", "join", "returned"
    \* ---- the alert path of one task, detection by detection ----
    ap_path,        \* "thread": TaskExecutor._process_detections,
                    \* "process": the alert loop of run_task_in_background, "none"
    ap_now,         \* the clock, in seconds
    ap_W,           \* task.alert_debounce_interval
    ap_history,     \* alert_history of the executor's DebounceManager
    ap_rows,        \* the alerts table: rows [class_name, t]
    ap_events,      \* the detections processed so far, in order, with what
                    \* was done with each
    \* ---- the process model of src/api/main.py: tasks, cron jobs, workers ----
    pm_up,          \* the application is running
    pm_in_window,   \* the wall clock is inside the tasks' execution window
    pm_type,        \* task -> schedule_type
    pm_enabled,     \* task -> is_enabled, as stored
    pm_status,      \* task -> status, as stored
    pm_jobs,        \* task -> its start and stop cron jobs exist
    pm_proc,        \* task -> background_task_processes: "none", "alive",
                    \* "exited" (an entry whose process has ended)
    pm_api,         \* task -> the last API call for it: "none", "start", "stop"
    \* ---- inference engines and the executors that own them ----
    ee_created,     \* number of engine instances created so far
    ee_engines,     \* engine -> [is_loaded, event, performance_stats]
    ee_owner,       \* executor -> its inference_engine, 0 = none
    ee_state,       \* executor -> "new", "running", "stopped", "failed"
    ee_last,        \* the last detect() call: [engine, loaded, raised, elapsed,
                    \* before, after]
    \* ---- the passes of one executor's loop over its sources, without a clock ----
    sv_pc,          \* the loop: "top", "sources", "pause", "backoff", "none"
    sv_todo,        \* the sources the for loop has not reached in this pass
    sv_due,         \* source -> inference_interval has passed since its
                    \* last_detection_time
    sv_snapshot,    \* source -> it was due at the current_time of this pass
    sv_bad,         \* the source whose inference raises on every attempt, or "none"
    sv_event        \* the source inferred by the last step, or "none"

schedVars == <<store, is_running, executors, ex, pc, cur, ceid, sch_tasks,
               sch_todo, sch_stop, api_list, api_ret,
               tick_store_changed, tick_api_acted>>

alertVars == <<now, debounce_time, alert_history, calls, task, alerts,
               first_seen, last_frame, last_path, passed, subscribed>>

frameVars == <<fs_class, source_up, ever_up, cap_opened, fs_running, fs_thread,
               reopens, has_frame>>

engineVars == <<config_platform, engines, ctor_ok, model_loads, init_pc, platform,
                inference_engine>>

windowVars == <<clock, schedule, loop, proc_started>>

loopVars == <<lx_kind, lx_running, lx_pc, lx_wake, lx_now, lx_current_time,
              lx_todo, last_detection_time, lx_inferred, lx_in_window,
              lx_iterations, lx_stop, lx_deadline, lx_readers, inference_interval>>

ctorVars == <<ct_model, ct_sources, ct_pc, ct_i, ct_processors, ct_open, ct_readers>>

pushVars == <<pushers, push_pc, push_todo, push_outcomes, results>>

captureVars == <<cp_class, cp_source_ok, cp_decoded, cp_slot, cp_got, cp_read,
                 cp_failed, cp_running, cp_reader, cp_handle, cp_releases, cp_stop>>

pathVars == <<ap_path, ap_now, ap_W, ap_history, ap_rows, ap_events>>

\* the variables of the components studied in detail
procVars == <<pm_up, pm_in_window, pm_type, pm_enabled, pm_status, pm_jobs, pm_proc,
              pm_api>>

ownVars == <<ee_created, ee_engines, ee_owner, ee_state, ee_last>>

starveVars == <<sv_pc, sv_todo, sv_due, sv_snapshot, sv_bad, sv_event>>

detailVars == <<pathVars, procVars, ownVars, starveVars>>

\* the variables of the workers studied one at a time
workerVars == <<loopVars, ctorVars, pushVars, captureVars, detailVars>>

vars == <<schedVars, requests, alertVars, frameVars, engineVars, windowVars,
          workerVars>>

\* the variables the scheduler's actions leave alone
nonSched == <<alertVars, frameVars, engineVars, windowVars, workerVars>>

\* no detection loop has been started
LoopIdle ==
    /\ lx_kind = "none"
    /\ lx_running = FALSE
    /\ lx_pc = "none"
    /\ lx_wake = 0
    /\ lx_now = 0
    /\ lx_current_time = 0
    /\ lx_todo = <<>>
    /\ last_detection_time = <<>>
    /\ lx_inferred = <<>>
    /\ lx_in_window = FALSE
    /\ lx_iterations = 0
    /\ lx_stop = "idle"
    /\ lx_deadline = 0
    /\ lx_readers = <<>>
    /\ inference_interval = 0

\* no executor is being constructed
CtorIdle ==
    /\ ct_model = "ok"
    /\ ct_sources = <<>>
    /\ ct_pc = "none"
    /\ ct_i = 0
    /\ ct_processors = {}
    /\ ct_open = {}
    /\ ct_readers = {}

\* no notification manager has been constructed
PushIdle ==
    /\ pushers = {}
    /\ push_pc = "none"
    /\ push_todo = <<>>
    /\ push_outcomes = <<>>
    /\ results = <<>>

\* no capture has been constructed
CaptureIdle ==
    /\ cp_class = "none"
    /\ cp_source_ok = FALSE
    /\ cp_decoded = 0
    /\ cp_slot = 0
    /\ cp_got = <<>>
    /\ cp_read = [ret |-> FALSE, failing |-> FALSE]
    /\ cp_failed = FALSE
    /\ cp_running = FALSE
    /\ cp_reader = "none"
    /\ cp_handle = "closed"
    /\ cp_releases = 0
    /\ cp_stop = "idle"

\* no detection has been processed
PathIdle ==
    /\ ap_path = "none"
    /\ ap_now = 0
    /\ ap_W = 0
    /\ ap_history = <<>>
    /\ ap_rows = {}
    /\ ap_events = <<>>

\* the application of the process model is not studied
ProcIdle ==
    /\ pm_up = FALSE
    /\ pm_in_window = FALSE
    /\ pm_type = <<>>
    /\ pm_enabled = <<>>
    /\ pm_status = <<>>
    /\ pm_jobs = <<>>
    /\ pm_proc = <<>>
    /\ pm_api = <<>>

\* no engine has been created
OwnIdle ==
    /\ ee_created = 0
    /\ ee_engines = <<>>
    /\ ee_owner = <<>>
    /\ ee_state = <<>>
    /\ ee_last = <<>>

\* no loop is being followed
StarveIdle ==
    /\ sv_pc = "none"
    /\ sv_todo = <<>>
    /\ sv_due = <<>>
    /\ sv_snapshot = <<>>
    /\ sv_bad = "none"
    /\ sv_event = "none"

DetailIdle == PathIdle /\ ProcIdle /\ OwnIdle /\ StarveIdle

\* no worker is being studied
WorkerIdle == LoopIdle /\ CtorIdle /\ PushIdle /\ CaptureIdle /\ DetailIdle

\* no executor is being initialised
EngineIdle ==
    /\ config_platform = [kind |-> "missing", name |-> "none"]
    /\ engines = {}
    /\ ctor_ok = FALSE
    /\ model_loads = FALSE
    /\ init_pc = "none"
    /\ platform = "none"
    /\ inference_engine = "None"

\* no scheduled task
WindowIdle ==
    /\ clock = 0
    /\ schedule = [schedule_type |-> "continuous", start_time |-> 0, end_time |-> 0]
    /\ loop = [state |-> "new", at |-> 0]
    /\ proc_started = FALSE

\* no frame source has been constructed
FrameIdle ==
    /\ fs_class = "none"
    /\ source_up = FALSE
    /\ ever_up = FALSE
    /\ cap_opened = FALSE
    /\ fs_running = FALSE
    /\ fs_thread = "none"
    /\ reopens = 0
    /\ has_frame = FALSE

\* the task of an executor that has not been given one
NoTask == [confidence_threshold |-> 0, alert_debounce_interval |-> 0, roi |-> <<>>,
           runs_in |-> "none"]

\* the alert path before any executor exists
AlertIdle ==
    /\ now = 0
    /\ debounce_time = 0
    /\ alert_history = <<>>
    /\ calls = <<>>
    /\ task = NoTask
    /\ alerts = {}
    /\ first_seen = <<>>
    /\ last_frame = {}
    /\ last_path = "none"
    /\ passed = {}
    /\ subscribed = {}

(***************************************************************************)
(* Task store                                                              *)
(***************************************************************************)
NoExecutor == [task |-> 0, is_running |-> FALSE, thread |-> "none",
               reader |-> "none", proc |-> "none"]

NoTasks == [t \in TaskIds |-> "absent"]

Keys == {t \in TaskIds : executors[t] # 0}

EnabledTasks == {t \in TaskIds : store[t].present /\ store[t].is_enabled}

\* the control points of _scheduler_loop between the fetch of the tasks and
\* the sleep that ends the tick
InTick == pc["sched"] \notin {"off", "top", "sleep30", "sleep60", "dead"}

\* TaskRepository.update_task_status: UPDATE ... WHERE id = task_id
update_task_status(s, t, st) ==
    IF s[t].present THEN [s EXCEPT ![t].status = st] ELSE s

\* TaskRepository.get_all_tasks_for_scheduling, as the tick sees it
get_all_tasks_for_scheduling ==
    [t \in TaskIds |-> IF ~store[t].present THEN "absent"
                       ELSE IF store[t].is_enabled THEN "enabled" ELSE "disabled"]

RECURSIVE SeqOfSet(_)
SeqOfSet(S) ==
    IF S = {} THEN <<>>
    ELSE LET m == CHOOSE x \in S : \A y \in S : x <= y
         IN <<m>> \o SeqOfSet(S \ {m})

\* the request layer enables or disables a task:
\* update_task_status_and_enabled_state(task_id, "running", True) or
\* (task_id, "stopped", False)
SetEnabled(t, b) ==
    /\ pc["api"] = "idle"
    /\ store[t].present
    /\ store[t].is_enabled # b
    /\ store' = [store EXCEPT ![t].is_enabled = b,
                              ![t].status = IF b THEN "running" ELSE "stopped"]
    /\ tick_store_changed' = InTick
    /\ UNCHANGED <<is_running, executors, ex, pc, cur, ceid, sch_tasks,
                   sch_todo, sch_stop, api_list, api_ret, tick_api_acted>>

\* the request layer deletes a task: task_repository.delete_task(task_id)
DeleteTask(t) ==
    /\ pc["api"] = "idle"
    /\ store[t].present
    /\ store' = [store EXCEPT ![t].present = FALSE, ![t].is_enabled = FALSE,
                              ![t].status = "stopped"]
    /\ tick_store_changed' = InTick
    /\ UNCHANGED <<is_running, executors, ex, pc, cur, ceid, sch_tasks,
                   sch_todo, sch_stop, api_list, api_ret, tick_api_acted>>

(***************************************************************************)
(* TaskExecutor                                                            *)
(***************************************************************************)
FreeEid ==
    IF \E e \in Eids : ex[e].task = 0
    THEN CHOOSE e \in Eids : ex[e].task = 0 /\ \A f \in Eids : ex[f].task = 0 => e <= f
    ELSE 0

\* TaskExecutor.__init__: whether _initialize gets through for task t (the
\* model row exists, the engine is created and load_model returns True)
InitializeSucceeds(t) == store[t].model_ok

\* TaskExecutor.__init__ followed by TaskExecutor.start: a new executor whose
\* VideoCapture reader runs since the constructor (the source opens) and
\* whose processing thread and execution thread run since start()
StartedExecutor(t) ==
    [task |-> t, is_running |-> TRUE, thread |-> "alive", reader |-> "alive",
     proc |-> "alive"]

\* _start_task: executor = TaskExecutor(task, self.config); executor.start()
Construct(c) ==
    /\ pc[c] = "construct"
    /\ IF InitializeSucceeds(cur[c])
       THEN /\ FreeEid # 0
            /\ ex' = [ex EXCEPT ![FreeEid] = StartedExecutor(cur[c])]
            /\ ceid' = [ceid EXCEPT ![c] = FreeEid]
            /\ pc' = [pc EXCEPT ![c] = "register"]
       ELSE /\ pc' = [pc EXCEPT ![c] = "fail"]
            /\ UNCHANGED <<ex, ceid>>
    /\ tick_api_acted' = (tick_api_acted \/ (c = "api" /\ InTick))
    /\ UNCHANGED <<store, is_running, executors, cur, sch_tasks, sch_todo,
                   sch_stop, api_list, api_ret, tick_store_changed>>

\* _start_task: self.executors[task.id] = executor
Register(c) ==
    /\ pc[c] = "register"
    /\ executors' = [executors EXCEPT ![cur[c]] = ceid[c]]
    /\ ceid' = [ceid EXCEPT ![c] = 0]
    /\ pc' = [pc EXCEPT ![c] = "status"]
    /\ tick_api_acted' = (tick_api_acted \/ (c = "api" /\ InTick))
    /\ UNCHANGED <<store, is_running, ex, cur, sch_tasks, sch_todo,
                   sch_stop, api_list, api_ret, tick_store_changed>>

\* a _start_task whose except branch records the task as running
StartTaskStatusOfRunning(p) == "running"

\* _start_task: the status it stores: "running" at the end of the try branch,
\* "error" in the except branch
StartTaskStatusOf(p) == IF p = "status" THEN "running" ELSE "error"

\* _start_task: update_task_status(task.id, "running") in the try branch,
\* update_task_status(task.id, "error") in the except branch; then return
StartTaskStatus(c) ==
    /\ pc[c] \in {"status", "fail"}
    /\ store' = update_task_status(store, cur[c], StartTaskStatusOf(pc[c]))
    /\ cur' = [cur EXCEPT ![c] = 0]
    /\ pc' = [pc EXCEPT ![c] = IF c = "sched" THEN "iter" ELSE "idle"]
    /\ sch_todo' = IF c = "sched" THEN Tail(sch_todo) ELSE sch_todo
    /\ api_ret' = IF c = "sched" THEN api_ret
                  ELSE IF pc[c] = "status" THEN "started" ELSE "failed"
    /\ tick_api_acted' = (tick_api_acted \/ (c = "api" /\ InTick))
    /\ tick_store_changed' = (tick_store_changed \/ (c = "api" /\ InTick /\ store' # store))
    /\ UNCHANGED <<is_running, executors, ex, ceid, sch_tasks, sch_stop, api_list>>

\* TaskExecutor.stop, first part: is_running = False, then for the processor
\* VideoProcessor.stop sets is_running = False and VideoCapture.stop sets
\* running = False and joins the reader with timeout=1; the reader sits in
\* the decode call, which can block for longer than that, so the join
\* returns whether or not the reader has ended
StopFlags(c) ==
    /\ pc[c] = "x_flag"
    /\ ex' = [ex EXCEPT ![ceid[c]] =
                [@ EXCEPT !.is_running = FALSE,
                          !.reader = IF @ = "alive" THEN "stopreq" ELSE @]]
    /\ pc' = [pc EXCEPT ![c] = "x_join"]
    /\ tick_api_acted' = (tick_api_acted \/ (c = "api" /\ InTick))
    /\ UNCHANGED <<store, is_running, executors, cur, ceid, sch_tasks, sch_todo,
                   sch_stop, api_list, api_ret, tick_store_changed>>

\* where executor.stop() returns to: the loop of TaskScheduler.stop or the
\* del of _stop_task
AfterExecutorStop(c) ==
    IF c = "api" /\ api_ret = "shutdown_pending" THEN "sd_loop" ELSE "del"

\* TaskExecutor.stop, second part: processing_thread.join(timeout=2.0), which
\* the polling loop of the processing thread lets return with the thread
\* ended, then execution_thread.join(timeout=5.0), which returns with the
\* thread ended or, when the loop is inside time.sleep(60), still alive
StopJoin(c) ==
    /\ pc[c] = "x_join"
    /\ ex' = [ex EXCEPT ![ceid[c]].proc = IF @ = "alive" THEN "dead" ELSE @]
    /\ ceid' = [ceid EXCEPT ![c] = 0]
    /\ pc' = [pc EXCEPT ![c] = AfterExecutorStop(c)]
    /\ tick_api_acted' = (tick_api_acted \/ (c = "api" /\ InTick))
    /\ UNCHANGED <<store, is_running, executors, cur, sch_tasks, sch_todo,
                   sch_stop, api_list, api_ret, tick_store_changed>>

\* TaskExecutor._execution_loop leaves its while loop once is_running is
\* False (after the sleep it may be in)
ExecutionExit(e) ==
    /\ ex[e].thread = "alive"
    /\ ~ex[e].is_running
    /\ ex' = [ex EXCEPT ![e].thread = "dead"]
    /\ UNCHANGED <<store, is_running, executors, pc, cur, ceid, sch_tasks,
                   sch_todo, sch_stop, api_list, api_ret,
                   tick_store_changed, tick_api_acted>>

\* VideoCapture._read_thread leaves its while loop once running is False
ReaderExit(e) ==
    /\ ex[e].reader = "stopreq"
    /\ ex' = [ex EXCEPT ![e].reader = "dead"]
    /\ UNCHANGED <<store, is_running, executors, pc, cur, ceid, sch_tasks,
                   sch_todo, sch_stop, api_list, api_ret,
                   tick_store_changed, tick_api_acted>>

(***************************************************************************)
(* TaskScheduler                                                           *)
(***************************************************************************)
\* TaskScheduler.start
SchedulerStart ==
    /\ pc["sched"] = "off"
    /\ pc["api"] = "idle"
    /\ ~is_running
    /\ api_ret # "returned"
    /\ is_running' = TRUE
    /\ pc' = [pc EXCEPT !["sched"] = "top"]
    /\ UNCHANGED <<store, executors, ex, cur, ceid, sch_tasks, sch_todo,
                   sch_stop, api_list, api_ret, tick_store_changed, tick_api_acted>>

\* _scheduler_loop: `while self.is_running` and get_all_tasks_for_scheduling()
LoopTop ==
    /\ pc["sched"] = "top"
    /\ IF ~is_running
       THEN /\ pc' = [pc EXCEPT !["sched"] = "dead"]
            /\ UNCHANGED <<sch_tasks, sch_todo>>
       ELSE /\ sch_tasks' = get_all_tasks_for_scheduling
            /\ sch_todo' = SeqOfSet({t \in TaskIds : store[t].present})
            /\ pc' = [pc EXCEPT !["sched"] = "iter"]
    /\ UNCHANGED <<store, is_running, executors, ex, cur, ceid, sch_stop,
                   api_list, api_ret, tick_store_changed, tick_api_acted>>

\* whether the tick starts task t: `task.is_enabled and task.id not in self.executors`
TickStarts(t) == sch_tasks[t] = "enabled" /\ executors[t] = 0

\* the ids the tick stops: running_task_ids - active_task_ids
TickStops == Keys \ {t \in TaskIds : sch_tasks[t] = "enabled"}

\* _scheduler_loop: one pass of `for task in tasks`, and after the last one
\* the computation of running_task_ids - active_task_ids
LoopTasks ==
    /\ pc["sched"] = "iter"
    /\ IF sch_todo = <<>>
       THEN /\ sch_stop' = TickStops
            /\ pc' = [pc EXCEPT !["sched"] = "stoploop"]
            /\ UNCHANGED <<cur, sch_todo>>
       ELSE IF TickStarts(Head(sch_todo))
            THEN /\ cur' = [cur EXCEPT !["sched"] = Head(sch_todo)]
                 /\ pc' = [pc EXCEPT !["sched"] = "construct"]
                 /\ UNCHANGED <<sch_todo, sch_stop>>
            ELSE /\ sch_todo' = Tail(sch_todo)
                 /\ UNCHANGED <<pc, cur, sch_stop>>
    /\ UNCHANGED <<store, is_running, executors, ex, ceid, sch_tasks,
                   api_list, api_ret, tick_store_changed, tick_api_acted>>

\* _scheduler_loop: one pass of `for task_id in running_task_ids - active_task_ids`
\* with the entry of _stop_task, and after the last one time.sleep(30)
LoopStops ==
    /\ pc["sched"] = "stoploop"
    /\ IF sch_stop = {}
       THEN /\ pc' = [pc EXCEPT !["sched"] = "sleep30"]
            /\ sch_tasks' = NoTasks
            /\ tick_store_changed' = FALSE
            /\ tick_api_acted' = FALSE
            /\ UNCHANGED <<cur, ceid, sch_stop>>
       ELSE /\ \E t \in sch_stop :
                 /\ sch_stop' = sch_stop \ {t}
                 /\ IF executors[t] # 0
                    THEN /\ cur' = [cur EXCEPT !["sched"] = t]
                         /\ ceid' = [ceid EXCEPT !["sched"] = executors[t]]
                         /\ pc' = [pc EXCEPT !["sched"] = "x_flag"]
                    ELSE UNCHANGED <<pc, cur, ceid>>
            /\ UNCHANGED <<sch_tasks, tick_store_changed, tick_api_acted>>
    /\ UNCHANGED <<store, is_running, executors, ex, sch_todo, api_list, api_ret>>

\* _stop_task: del self.executors[task_id]; a KeyError ends the tick in the
\* loop's except branch (time.sleep(60)) and the API call with an error
StopTaskDel(c) ==
    /\ pc[c] = "del"
    /\ IF executors[cur[c]] # 0
       THEN /\ executors' = [executors EXCEPT ![cur[c]] = 0]
            /\ pc' = [pc EXCEPT ![c] = "st_status"]
            /\ UNCHANGED <<api_ret, cur, sch_tasks, sch_todo, sch_stop>>
            /\ tick_api_acted' = (tick_api_acted \/ (c = "api" /\ InTick))
            /\ UNCHANGED tick_store_changed
       ELSE /\ pc' = [pc EXCEPT ![c] = IF c = "sched" THEN "sleep60" ELSE "idle"]
            /\ api_ret' = IF c = "api" THEN "KeyError" ELSE api_ret
            /\ cur' = [cur EXCEPT ![c] = 0]
            /\ sch_tasks' = IF c = "sched" THEN NoTasks ELSE sch_tasks
            /\ sch_todo' = IF c = "sched" THEN <<>> ELSE sch_todo
            /\ sch_stop' = IF c = "sched" THEN {} ELSE sch_stop
            /\ tick_api_acted' = IF c = "sched" THEN FALSE ELSE (tick_api_acted \/ InTick)
            /\ tick_store_changed' = IF c = "sched" THEN FALSE ELSE tick_store_changed
            /\ UNCHANGED executors
    /\ UNCHANGED <<store, is_running, ex, ceid, api_list>>

\* _stop_task: update_task_status(task_id, "stopped"), then return
StatusStopped(c) ==
    /\ pc[c] = "st_status"
    /\ store' = update_task_status(store, cur[c], "stopped")
    /\ cur' = [cur EXCEPT ![c] = 0]
    /\ pc' = [pc EXCEPT ![c] = IF c = "sched" THEN "stoploop" ELSE "idle"]
    /\ api_ret' = IF c = "api" THEN "stopped" ELSE api_ret
    /\ tick_api_acted' = (tick_api_acted \/ (c = "api" /\ InTick))
    /\ tick_store_changed' = (tick_store_changed \/ (c = "api" /\ InTick /\ store' # store))
    /\ UNCHANGED <<is_running, executors, ex, ceid, sch_tasks, sch_todo,
                   sch_stop, api_list>>

\* the end of time.sleep(30) / time.sleep(60) in _scheduler_loop
LoopWake ==
    /\ pc["sched"] \in {"sleep30", "sleep60"}
    /\ pc' = [pc EXCEPT !["sched"] = "top"]
    /\ UNCHANGED <<store, is_running, executors, ex, cur, ceid, sch_tasks,
                   sch_todo, sch_stop, api_list, api_ret,
                   tick_store_changed, tick_api_acted>>

\* start_task_manually: what the call does with task t before _start_task
StartManuallyOutcome(t) ==
    IF ~store[t].present THEN "ValueError"
    ELSE IF executors[t] # 0 THEN "start_noop"
    ELSE "start_pending"

start_task_manually(t) ==
    /\ pc["api"] = "idle"
    /\ api_ret # "returned"
    /\ api_ret' = StartManuallyOutcome(t)
    /\ IF StartManuallyOutcome(t) = "start_pending"
       THEN /\ pc' = [pc EXCEPT !["api"] = "construct"]
            /\ cur' = [cur EXCEPT !["api"] = t]
       ELSE UNCHANGED <<pc, cur>>
    /\ tick_api_acted' = (tick_api_acted \/ InTick)
    /\ UNCHANGED <<store, is_running, executors, ex, ceid, sch_tasks, sch_todo,
                   sch_stop, api_list, tick_store_changed>>

\* stop_task_manually: what the call does with task t before executor.stop()
StopManuallyOutcome(t) == IF executors[t] = 0 THEN "stop_noop" ELSE "stop_pending"

stop_task_manually(t) ==
    /\ pc["api"] = "idle"
    /\ api_ret # "returned"
    /\ api_ret' = StopManuallyOutcome(t)
    /\ IF StopManuallyOutcome(t) = "stop_pending"
       THEN /\ cur' = [cur EXCEPT !["api"] = t]
            /\ ceid' = [ceid EXCEPT !["api"] = executors[t]]
            /\ pc' = [pc EXCEPT !["api"] = "x_flag"]
       ELSE UNCHANGED <<pc, cur, ceid>>
    /\ tick_api_acted' = (tick_api_acted \/ InTick)
    /\ UNCHANGED <<store, is_running, executors, ex, sch_tasks, sch_todo,
                   sch_stop, api_list, tick_store_changed>>

\* TaskScheduler.stop: is_running = False and list(self.executors.values())
SchedulerStop ==
    /\ pc["api"] = "idle"
    /\ api_ret # "returned"
    /\ is_running' = FALSE
    /\ api_ret' = "shutdown_pending"
    /\ api_list' = SeqOfSet({executors[t] : t \in Keys})
    /\ pc' = [pc EXCEPT !["api"] = "sd_loop"]
    /\ tick_api_acted' = (tick_api_acted \/ InTick)
    /\ UNCHANGED <<store, executors, ex, cur, ceid, sch_tasks, sch_todo,
                   sch_stop, tick_store_changed>>

\* TaskScheduler.stop: one pass of `for executor in list(...)`, and after the
\* last one self.executors.clear()
StopExecutors ==
    /\ pc["api"] = "sd_loop"
    /\ IF api_list = <<>>
       THEN /\ executors' = [t \in TaskIds |-> 0]
            /\ pc' = [pc EXCEPT !["api"] = "sd_join"]
            /\ UNCHANGED <<ceid, api_list>>
       ELSE /\ ceid' = [ceid EXCEPT !["api"] = Head(api_list)]
            /\ api_list' = Tail(api_list)
            /\ pc' = [pc EXCEPT !["api"] = "x_flag"]
            /\ UNCHANGED executors
    /\ tick_api_acted' = (tick_api_acted \/ InTick)
    /\ UNCHANGED <<store, is_running, ex, cur, sch_tasks, sch_todo,
                   sch_stop, api_ret, tick_store_changed>>

\* TaskScheduler.stop: self.scheduler_thread.join(timeout=5.0), which times
\* out when the loop is inside time.sleep(30) or time.sleep(60); then
\* executor_pool.shutdown and return
StopJoinScheduler ==
    /\ pc["api"] = "sd_join"
    /\ pc["sched"] \in {"off", "dead", "sleep30", "sleep60"}
    /\ pc' = [pc EXCEPT !["api"] = "idle"]
    /\ api_ret' = "returned"
    /\ UNCHANGED <<store, is_running, executors, ex, cur, ceid, sch_tasks,
                   sch_todo, sch_stop, api_list, tick_store_changed, tick_api_acted>>

(***************************************************************************)
(* Specification of the scheduler: the scheduler thread, the API thread    *)
(* calling into the scheduler, the request layer editing the store, and    *)
(* the threads of the executors                                            *)
(***************************************************************************)
SchedulerConstructed ==
    /\ is_running = FALSE
    /\ executors = [t \in TaskIds |-> 0]
    /\ ex = [e \in Eids |-> NoExecutor]
    /\ pc = [c \in Callers |-> IF c = "sched" THEN "off" ELSE "idle"]
    /\ cur = [c \in Callers |-> 0]
    /\ ceid = [c \in Callers |-> 0]
    /\ sch_tasks = NoTasks
    /\ sch_todo = <<>>
    /\ sch_stop = {}
    /\ api_list = <<>>
    /\ api_ret = "none"
    /\ tick_store_changed = FALSE
    /\ tick_api_acted = FALSE

InitScheduler ==
    /\ store \in [TaskIds -> [present : {TRUE}, is_enabled : BOOLEAN,
                              status : {"stopped"}, model_ok : BOOLEAN]]
    /\ store[1].is_enabled /\ ~store[2].is_enabled
    /\ SchedulerConstructed

\* a scheduler that is never started, over an empty task store
SchedIdle ==
    /\ store = [t \in TaskIds |-> [present |-> FALSE, is_enabled |-> FALSE,
                                   status |-> "stopped", model_ok |-> FALSE]]
    /\ SchedulerConstructed
    /\ requests = 0

Init ==
    /\ InitScheduler
    /\ requests = 0
    /\ WorkerIdle
    /\ AlertIdle
    /\ FrameIdle
    /\ EngineIdle
    /\ WindowIdle

\* a request that counts against MaxRequests
Counted == requests < MaxRequests /\ requests' = requests + 1 /\ UNCHANGED nonSched

Free == UNCHANGED requests /\ UNCHANGED nonSched

Next ==
    \/ \E t \in TaskIds, b \in BOOLEAN : SetEnabled(t, b) /\ Counted
    \/ \E t \in TaskIds : DeleteTask(t) /\ Free
    \/ SchedulerStart /\ Free
    \/ LoopTop /\ Free
    \/ LoopTasks /\ Free
    \/ LoopStops /\ Free
    \/ LoopWake /\ Free
    \/ \E c \in Callers : Construct(c) /\ Free
    \/ \E c \in Callers : Register(c) /\ Free
    \/ \E c \in Callers : StartTaskStatus(c) /\ Free
    \/ \E c \in Callers : StopFlags(c) /\ Free
    \/ \E c \in Callers : StopJoin(c) /\ Free
    \/ \E c \in Callers : StopTaskDel(c) /\ Free
    \/ \E c \in Callers : StatusStopped(c) /\ Free
    \/ \E t \in TaskIds : start_task_manually(t) /\ Counted
    \/ \E t \in TaskIds : stop_task_manually(t) /\ Counted
    \/ SchedulerStop /\ Free
    \/ StopExecutors /\ Free
    \/ StopJoinScheduler /\ Free
    \/ \E e \in Eids : ExecutionExit(e) /\ Free
    \/ \E e \in Eids : ReaderExit(e) /\ Free

Spec == Init /\ [][Next]_vars

(***************************************************************************)
(* Properties of the scheduler                                             *)
(***************************************************************************)
\* the executors of task t that have been started and not stopped
LiveExecutors(t) == {e \in Eids : ex[e].task = t /\ ex[e].is_running}

\* C1: at-most-one executor per task: under any interleaving of the
\* reconciliation loop and start_task_manually there are never two live
\* (started, not stopped) executors of the same task
C1_AtMostOneExecutor == \A t \in TaskIds : Cardinality(LiveExecutors(t)) <= 1

\* C2: graceful shutdown: once TaskScheduler.stop() has returned, no execution
\* thread and no frame reader of any executor is alive, no executor is live
\* and the running map is empty
C2_GracefulShutdown ==
    api_ret = "returned" =>
        /\ Keys = {}
        /\ \A e \in Eids : /\ ~ex[e].is_running
                           /\ ex[e].thread # "alive"
                           /\ ex[e].reader \notin {"alive", "stopreq"}
                           /\ ex[e].proc # "alive"

\* the step that ends a tick of _scheduler_loop normally (it enters time.sleep(30))
TickCompletes == pc["sched"] = "stoploop" /\ pc'["sched"] = "sleep30"

\* the running map agrees with the store: every key is an enabled task, and
\* every enabled task whose executor can be constructed is a key
Reconciled ==
    /\ Keys \subseteq EnabledTasks
    /\ \A t \in EnabledTasks : InitializeSucceeds(t) => t \in Keys

\* C3: reconciliation: after a tick completes against an unchanged task store,
\* the keys of the running map are exactly the enabled tasks whose executor
\* can be constructed
C3_ReconciledUnchangedStore ==
    [][(TickCompletes /\ ~tick_store_changed) => Reconciled']_vars

\* Reconciliation does hold of the ticks during which the API thread took no
\* step of start_task_manually, stop_task_manually or stop(): the running map
\* is only left unreconciled by the unsynchronised accesses of C1 and C2
ReconciledUndisturbed ==
    [][(TickCompletes /\ ~tick_store_changed /\ ~tick_api_acted) => Reconciled']_vars

\* an undisturbed tick is about to complete after it has started the executor
\* of task 2 and stopped and removed the executor of the deleted task 1
UndisturbedTickActed ==
    /\ pc["sched"] = "stoploop" /\ sch_stop = {}
    /\ ~tick_store_changed /\ ~tick_api_acted
    /\ ~store[1].present /\ executors[1] = 0
    /\ \E e \in Eids : ex[e].task = 1 /\ ~ex[e].is_running
    /\ executors[2] # 0 /\ ex[executors[2]].is_running
    /\ Reconciled

\* C10: manual start and stop are idempotent: start_task_manually on a task
\* that already has a running executor, and stop_task_manually on a task with
\* no running executor, return at once without an error and leave the running
\* map, the executors and the stored task unchanged
C10_Idempotent ==
    [][\A t \in TaskIds :
          /\ (start_task_manually(t) /\ LiveExecutors(t) # {})
                 => (api_ret' = "start_noop" /\ UNCHANGED <<executors, ex, store>>)
          /\ (stop_task_manually(t) /\ LiveExecutors(t) = {} /\ executors[t] = 0)
                 => (api_ret' = "stop_noop" /\ UNCHANGED <<executors, ex, store>>)]_vars

\* C11: a failure to construct or start a task's executor during a tick is
\* turned into the stored status "error": the failed construction creates no
\* executor, the except branch of _start_task stores "error" for the task,
\* adds no entry to the running map and hands control back to the loop over
\* the remaining tasks of the tick; the scheduler thread only ends when the
\* scheduler is stopped, and a tick the API thread did not disturb still
\* ends with every other task reconciled
C11_FailureBecomesError ==
    [][/\ (pc["sched"] = "construct" /\ pc'["sched"] = "fail")
            => (ex' = ex /\ executors' = executors)
       /\ (pc["sched"] = "fail" /\ pc'["sched"] # "fail")
            => /\ store'[cur["sched"]].present
                    => store'[cur["sched"]].status = "error"
               /\ executors' = executors
               /\ cur["sched"] \notin {t \in TaskIds : executors'[t] # 0}
               /\ ex' = ex
               /\ pc'["sched"] = "iter"
               /\ sch_todo' = Tail(sch_todo)
       /\ (pc["sched"] # "dead" /\ pc'["sched"] = "dead") => ~is_running
       /\ (TickCompletes /\ ~tick_store_changed /\ ~tick_api_acted
              /\ \E t \in TaskIds : sch_tasks[t] = "enabled" /\ ~InitializeSucceeds(t))
            => Reconciled']_vars

\* in one tick the construction of task 1 has failed and been stored as
\* "error", and the tick has gone on to start the executor of task 2
C11_Witness ==
    /\ pc["sched"] = "status" /\ cur["sched"] = 2
    /\ sch_tasks[1] = "enabled" /\ ~InitializeSucceeds(1)
    /\ store[1].status = "error"
    /\ executors[1] = 0
    /\ executors[2] # 0 /\ ex[executors[2]].is_running

\* C12: no hot-loop retry: a tick that began after a task was recorded as
\* errored (nothing has written the store and no manual start has run since
\* the tick fetched the tasks) does not construct the executor of that task;
\* "error" is the status a failed construction leaves, and an edit of the
\* task or a successful manual start replaces it
C12_NoHotLoopRetry ==
    [][(pc["sched"] = "iter" /\ pc'["sched"] = "construct"
          /\ ~tick_store_changed /\ ~tick_api_acted)
          => store[cur'["sched"]].status # "error"]_vars

(***************************************************************************)
(* DebounceManager (src/src/components/alert_manager.py)                   *)
(***************************************************************************)
\* the clock runs from 0 to MaxTime
MaxTime == 6
\* number of should_alert calls in one behaviour
MaxCalls == 3
\* debounce windows, in seconds
Windows == {2, 3}
Classes == {"person", "car"}
\* bounding boxes [x1, y1, x2, y2]; the second is the first moved by a few
\* pixels, the last is too short to have a centre
BBoxes == {<<0, 0, 100, 100>>, <<4, 2, 110, 108>>, <<100, 100, 300, 300>>, <<0, 0>>}
Detections == [class_name : Classes, bbox : BBoxes]

\* the key is the class and the 100-pixel grid cell of the box centre
generate_alert_key(detection) ==
    LET bbox == detection.bbox
    IN  IF Len(bbox) >= 4
        THEN <<detection.class_name,
               <<((bbox[1] + bbox[3]) \div 2) \div 100,
                 ((bbox[2] + bbox[4]) \div 2) \div 100>> >>
        ELSE <<detection.class_name, <<>> >>

\* a window that closes one second early
InWindowShort(last_alert_time, current_time, W) == current_time - last_alert_time < W - 1

\* current_time - last_alert_time < self.debounce_time
InWindow(last_alert_time, current_time, W) == current_time - last_alert_time < W

\* should_alert returns False
Suppressed(history, W, alert_key, current_time) ==
    /\ alert_key \in DOMAIN history
    /\ InWindow(history[alert_key], current_time, W)

cleanup_old_alerts(history, W, current_time) ==
    [k \in {x \in DOMAIN history : ~(current_time - history[x] > W * 2)} |-> history[k]]

\* a history that records the time of every call, suppressed or not
HistoryAlwaysRecorded(history, W, alert_key, current_time) ==
    [k \in DOMAIN history \cup {alert_key} |->
        IF k = alert_key THEN current_time ELSE history[k]]

\* alert_history after a should_alert call
HistoryAfter(history, W, alert_key, current_time) ==
    IF Suppressed(history, W, alert_key, current_time)
    THEN history
    ELSE cleanup_old_alerts(
             [k \in DOMAIN history \cup {alert_key} |->
                 IF k = alert_key THEN current_time ELSE history[k]],
             W, current_time)

should_alert(detection) ==
    LET alert_key == generate_alert_key(detection)
    IN  /\ Len(calls) < MaxCalls
        /\ calls' = Append(calls,
               [key |-> alert_key, t |-> now,
                ret |-> ~Suppressed(alert_history, debounce_time, alert_key, now)])
        /\ alert_history' = HistoryAfter(alert_history, debounce_time, alert_key, now)
        /\ UNCHANGED <<now, debounce_time, task, alerts, first_seen, last_frame,
                       last_path, passed, subscribed>>

\* time passes
Advance ==
    /\ now < MaxTime
    /\ now' = now + 1
    /\ UNCHANGED <<debounce_time, alert_history, calls, task, alerts, first_seen,
                   last_frame, last_path, passed, subscribed>>

\* the variables the alert path leaves alone
nonAlert == <<schedVars, requests, frameVars, engineVars, windowVars,
    workerVars>>

InitDebounce ==
    /\ SchedIdle
    /\ WorkerIdle
    /\ FrameIdle
    /\ EngineIdle
    /\ WindowIdle
    /\ now = 0
    /\ debounce_time \in Windows
    /\ alert_history = <<>>
    /\ calls = <<>>
    /\ task = NoTask
    /\ alerts = {}
    /\ first_seen = <<>>
    /\ last_frame = {}
    /\ last_path = "none"
    /\ passed = {}
    /\ subscribed = {}

NextDebounce ==
    \/ \E detection \in Detections : should_alert(detection) /\ UNCHANGED nonAlert
    \/ Advance /\ UNCHANGED nonAlert

DebounceSpec == InitDebounce /\ [][NextDebounce]_vars

\* calls i < j are two successive calls for the same key
Successive(i, j) ==
    /\ i < j
    /\ calls[i].key = calls[j].key
    /\ \A k \in (i + 1)..(j - 1) : calls[k].key # calls[i].key

\* C4: debounce correctness: the first should_alert call for a key returns
\* true; of two successive calls for the same key of which the first returned
\* true, the second returns false when they are less than W seconds apart and
\* true when they are more than W seconds apart
C4_DebounceCorrect ==
    \A j \in 1..Len(calls) :
        /\ (\A i \in 1..(j - 1) : calls[i].key # calls[j].key) => calls[j].ret
        /\ \A i \in 1..(j - 1) :
              (Successive(i, j) /\ calls[i].ret) =>
                  /\ (calls[j].t - calls[i].t < debounce_time) => ~calls[j].ret
                  /\ (calls[j].t - calls[i].t > debounce_time) => calls[j].ret

\* C4 witness: three calls for one key: the second, inside the window of the
\* first, was answered false, and the third, more than W after the first, true
C4_Witness ==
    /\ Len(calls) = 3
    /\ calls[1].key = calls[2].key /\ calls[2].key = calls[3].key
    /\ calls[1].ret /\ ~calls[2].ret /\ calls[3].ret
    /\ calls[2].t - calls[1].t < debounce_time
    /\ calls[3].t - calls[1].t > debounce_time

\* a should_alert call is made in this step
CallMade == Len(calls') = Len(calls) + 1

\* C22: eviction: after every should_alert call the history holds no key
\* whose last-alert time is more than 2W before the call, and a call never
\* removes a key whose last alert is still within W
C22_EvictionBound ==
    [][CallMade =>
          /\ \A k \in DOMAIN alert_history' :
                 ~(now - alert_history'[k] > 2 * debounce_time)
          /\ \A k \in DOMAIN alert_history \ DOMAIN alert_history' :
                 ~(now - alert_history[k] < debounce_time)]_vars

\* the calls before call j for the same key that returned true
FiredBefore(j) == {i \in 1..(j - 1) : calls[i].key = calls[j].key /\ calls[i].ret}

Latest(S) == CHOOSE i \in S : \A k \in S : k <= i

\* C27: a suppressed call leaves the stored time of its key unchanged: a call
\* returns false exactly when less than W seconds have passed since the last
\* call for its key that returned true, and a call that returns false
\* leaves the history as it was
C27_SuppressedCallKeepsTime ==
    /\ [](\A j \in 1..Len(calls) :
             calls[j].ret <=>
                 \/ FiredBefore(j) = {}
                 \/ calls[j].t - calls[Latest(FiredBefore(j))].t >= debounce_time)
    /\ [][(CallMade /\ ~calls'[Len(calls')].ret) => alert_history' = alert_history]_vars

\* C27 witness: a stream of one key with W = 2: fired at t, suppressed at
\* t + 1, fired again at t + 2, one second after the suppressed call
C27_Witness ==
    /\ debounce_time = 2
    /\ Len(calls) = 3
    /\ calls[1].key = calls[2].key /\ calls[2].key = calls[3].key
    /\ calls[1].ret /\ ~calls[2].ret /\ calls[3].ret
    /\ calls[2].t = calls[1].t + 1
    /\ calls[3].t = calls[1].t + 2

(***************************************************************************)
(* The detection loops: TaskExecutor._execution_loop of the threaded       *)
(* scheduler and run_task_in_background of the process model, for a task   *)
(* with one video source                                                   *)
(***************************************************************************)
\* boxes [x, y, w, h] of even width and height: one centred in the ROI, one
\* centred outside it
Boxes == {<<0, 0, 100, 100>>, <<400, 400, 200, 200>>}
\* confidences, in tenths
Confidences == {3, 9}
\* a person of either confidence at either place
FrameDetections == [class_name : {"person"}, confidence : Confidences, box : Boxes]
\* what the engine may return for one frame
Frames == {f \in SUBSET FrameDetections : Cardinality(f) <= 2}
\* regions of interest [x, y, w, h]; <<>> is a source without one
ROIs == {<<>>, <<0, 0, 200, 200>>}
Paths == {"thread", "process"}

\* the detections of a frame as the list the engine returns
RECURSIVE ListOf(_)
ListOf(S) ==
    IF S = {} THEN <<>>
    ELSE LET d == CHOOSE x \in S : TRUE IN <<d>> \o ListOf(S \ {d})

\* roi_x <= center_x <= roi_x + roi_w and roi_y <= center_y <= roi_y + roi_h
InROI(det, roi) ==
    LET center_x == det.box[1] + det.box[3] \div 2
        center_y == det.box[2] + det.box[4] \div 2
    IN  /\ roi[1] <= center_x /\ center_x <= roi[1] + roi[3]
        /\ roi[2] <= center_y /\ center_y <= roi[2] + roi[4]

\* filtered_detections of _execution_loop
filtered_detections(detections) ==
    {d \in detections : d.confidence >= task.confidence_threshold}

\* detections of run_task_in_background after its ROI filter
detections_in_roi(all_detections) ==
    IF task.roi # <<>> /\ all_detections # {}
    THEN {d \in all_detections : InROI(d, task.roi)}
    ELSE all_detections

high_confidence_detections(detections) ==
    {d \in detections : d.confidence >= task.confidence_threshold}

\* should_debounce_alert: the class parsed from the key, a fixed box, the
\* task's interval in place of debounce_time
DebounceKey(class_name) ==
    generate_alert_key([class_name |-> class_name, bbox |-> <<0, 0, 100, 100>>])

should_debounce_alert(history, class_name, debounce_interval, current_time) ==
    Suppressed(history, debounce_interval, DebounceKey(class_name), current_time)

\* _process_detections over the list of detections: the debounce history and
\* the alerts table after it; create_alert stores a row when persist_ok
RECURSIVE process_detections(_, _, _, _)
process_detections(detections, history, rows, persist_ok) ==
    IF detections = <<>>
    THEN [history |-> history, rows |-> rows]
    ELSE LET class_name == Head(detections).class_name
             W == task.alert_debounce_interval
         IN  IF should_debounce_alert(history, class_name, W, now)
             THEN process_detections(Tail(detections), history, rows, persist_ok)
             ELSE process_detections(
                      Tail(detections),
                      HistoryAfter(history, W, DebounceKey(class_name), now),
                      IF persist_ok
                      THEN rows \cup {[class_name |-> class_name, t |-> now, path |-> "thread"]}
                      ELSE rows,
                      persist_ok)

\* get_latest_alert_for_task: the times of the process model's alerts of a class
AlertTimes(rows, class_name) ==
    {a.t : a \in {r \in rows : r.path = "process" /\ r.class_name = class_name}}

\* the alert loop of run_task_in_background
RECURSIVE create_alerts(_, _, _)
create_alerts(detections, rows, persist_ok) ==
    IF detections = <<>>
    THEN rows
    ELSE LET class_name == Head(detections).class_name
             times == AlertTimes(rows, class_name)
             can_create_alert ==
                 \/ times = {}
                 \/ \A t \in times : ~(now - t < task.alert_debounce_interval)
         IN  create_alerts(
                 Tail(detections),
                 IF can_create_alert /\ persist_ok
                 THEN rows \cup {[class_name |-> class_name, t |-> now, path |-> "process"]}
                 ELSE rows,
                 persist_ok)

\* a detection that should raise an alert: at or above the threshold, and
\* centred in the ROI when the source has one
Qualifies(d) ==
    /\ d.confidence >= task.confidence_threshold
    /\ task.roi # <<>> => InROI(d, task.roi)

\* first_seen after `path` has processed `frame`
SeenAfter(path, frame) ==
    LET new == {<<path, d.class_name>> : d \in {x \in frame : Qualifies(x)}}
    IN  [k \in DOMAIN first_seen \cup new |->
            IF k \in DOMAIN first_seen THEN first_seen[k] ELSE now]

\* one pass of _execution_loop over the source, with a frame available and
\* the inference interval elapsed
execution_loop(frame, persist_ok) ==
    LET filtered == filtered_detections(frame)
        after == process_detections(ListOf(filtered), alert_history, alerts, persist_ok)
    IN  /\ task.runs_in = "thread"
        /\ last_frame' = frame
        /\ last_path' = "thread"
        /\ passed' = filtered
        /\ subscribed' = {}
        /\ alert_history' = after.history
        /\ alerts' = after.rows
        /\ first_seen' = SeenAfter("thread", frame)
        /\ UNCHANGED <<now, debounce_time, calls, task>>

\* one pass of the loop of run_task_in_background over the source
run_task_in_background(frame, persist_ok) ==
    LET detections == detections_in_roi(frame)
        high == high_confidence_detections(detections)
    IN  /\ task.runs_in = "process"
        /\ last_frame' = frame
        /\ last_path' = "process"
        /\ subscribed' = detections
        /\ passed' = high
        /\ alerts' = create_alerts(ListOf(high), alerts, persist_ok)
        /\ first_seen' = SeenAfter("process", frame)
        /\ UNCHANGED <<now, debounce_time, calls, task, alert_history>>

InitDetect ==
    /\ SchedIdle
    /\ WorkerIdle
    /\ FrameIdle
    /\ EngineIdle
    /\ WindowIdle
    /\ now = 0
    /\ debounce_time = 0
    /\ alert_history = <<>>
    /\ calls = <<>>
    /\ task \in [confidence_threshold : {5}, alert_debounce_interval : Windows,
                 roi : ROIs, runs_in : Paths]
    /\ alerts = {}
    /\ first_seen = <<>>
    /\ last_frame = {}
    /\ last_path = "none"
    /\ passed = {}
    /\ subscribed = {}

NextDetect ==
    \/ \E frame \in Frames, persist_ok \in BOOLEAN :
           execution_loop(frame, persist_ok) /\ UNCHANGED nonAlert
    \/ \E frame \in Frames, persist_ok \in BOOLEAN :
           run_task_in_background(frame, persist_ok) /\ UNCHANGED nonAlert
    \/ Advance /\ UNCHANGED nonAlert

DetectSpec == InitDetect /\ [][NextDetect]_vars

\* C5: one alert per window: while every frame so far was processed within W
\* seconds of the first frame with a qualifying detection of a class, the
\* alerts table holds exactly one alert of that class, created for that frame
C5_OneAlertInWindow ==
    \A k \in DOMAIN first_seen :
        (now - first_seen[k] < task.alert_debounce_interval) =>
            {a \in alerts : a.path = k[1] /\ a.class_name = k[2]}
                = {[class_name |-> k[2], t |-> first_seen[k], path |-> k[1]]}

\* C6: ROI filter order: of the detections of a frame of a source with a ROI,
\* exactly those at or above the confidence threshold and centred in the ROI
\* reach alert processing, and exactly those reach the result subscribers
C6_FilterOrder ==
    task.roi # <<>> =>
        /\ last_path # "none" => passed = {d \in last_frame : Qualifies(d)}
        /\ last_path = "process" => subscribed = {d \in last_frame : Qualifies(d)}

(***************************************************************************)
(* Frame sources: VideoCapture of src/api/main.py (a reader thread that    *)
(* reopens the source) and VideoCapture of video_input.py (a reader thread *)
(* over a capture opened once)                                             *)
(***************************************************************************)
\* the reader's reopen counter is followed up to MaxReopens
MaxReopens == 5
\* the cap on reopen attempts that the reconnect bound speaks of
max_attempts == 3
FrameClasses == {"grabber", "threaded"}

\* the camera goes away or comes back
SourceChanges ==
    /\ source_up' = ~source_up
    /\ ever_up' = TRUE
    /\ UNCHANGED <<fs_class, cap_opened, fs_running, fs_thread, reopens, has_frame>>

\* one pass of `while self.running` in VideoCapture._reader up to the read
Reader ==
    /\ fs_class = "grabber"
    /\ fs_thread = "read"
    /\ IF ~fs_running
       THEN fs_thread' = "dead" /\ UNCHANGED <<cap_opened, has_frame>>
       ELSE IF cap_opened /\ source_up
            THEN has_frame' = TRUE /\ UNCHANGED <<fs_thread, cap_opened>>
            ELSE /\ cap_opened' = FALSE
                 /\ fs_thread' = "reopen"
                 /\ UNCHANGED has_frame
    /\ UNCHANGED <<fs_class, source_up, ever_up, fs_running, reopens>>

\* after time.sleep(1): self.cap = cv2.VideoCapture(self.src); continue
ReaderReopen ==
    /\ fs_class = "grabber"
    /\ fs_thread = "reopen"
    /\ reopens < MaxReopens
    /\ cap_opened' = source_up
    /\ reopens' = reopens + 1
    /\ fs_thread' = "read"
    /\ UNCHANGED <<fs_class, source_up, ever_up, fs_running, has_frame>>

\* VideoCapture.release of the grabber up to the join
ReleaseFlag ==
    /\ fs_class = "grabber"
    /\ fs_running
    /\ fs_running' = FALSE
    /\ UNCHANGED <<fs_class, source_up, ever_up, cap_opened, fs_thread, reopens, has_frame>>

\* the join has returned: if self.cap.isOpened(): self.cap.release()
ReleaseCap ==
    /\ fs_class = "grabber"
    /\ ~fs_running
    /\ fs_thread = "dead"
    /\ cap_opened
    /\ cap_opened' = FALSE
    /\ UNCHANGED <<fs_class, source_up, ever_up, fs_running, fs_thread, reopens, has_frame>>

\* one pass of `while self.running and self.is_opened` in _read_thread
read_thread ==
    /\ fs_class = "threaded"
    /\ fs_thread = "read"
    /\ IF ~(fs_running /\ cap_opened)
       THEN fs_thread' = "dead" /\ UNCHANGED has_frame
       ELSE /\ has_frame' = (has_frame \/ source_up)
            /\ UNCHANGED fs_thread
    /\ UNCHANGED <<fs_class, source_up, ever_up, cap_opened, fs_running, reopens>>

\* VideoCapture.stop of video_input.py: running = False, join(timeout=1), cleanup()
stop ==
    /\ fs_class = "threaded"
    /\ fs_running
    /\ fs_running' = FALSE
    /\ UNCHANGED <<fs_class, source_up, ever_up, cap_opened, fs_thread, reopens, has_frame>>

\* the variables the frame sources leave alone
nonFrame == <<schedVars, requests, alertVars, engineVars, windowVars,
    workerVars>>

\* a frame source just constructed: the grabber starts its reader whatever the
\* first open gave, the threaded capture only when one of its three ways of
\* opening the source worked
InitFrame ==
    /\ SchedIdle
    /\ WorkerIdle
    /\ AlertIdle
    /\ EngineIdle
    /\ WindowIdle
    /\ fs_class \in FrameClasses
    /\ source_up \in BOOLEAN
    /\ ever_up = source_up
    /\ cap_opened = source_up
    /\ fs_running = (fs_class = "grabber" \/ cap_opened)
    /\ fs_thread = IF fs_class = "grabber" \/ cap_opened THEN "read" ELSE "none"
    /\ reopens = 0
    /\ has_frame = FALSE

NextFrame ==
    \/ SourceChanges /\ UNCHANGED nonFrame
    \/ Reader /\ UNCHANGED nonFrame
    \/ ReaderReopen /\ UNCHANGED nonFrame
    \/ ReleaseFlag /\ UNCHANGED nonFrame
    \/ ReleaseCap /\ UNCHANGED nonFrame
    \/ read_thread /\ UNCHANGED nonFrame
    \/ stop /\ UNCHANGED nonFrame

FrameSpec == InitFrame /\ [][NextFrame]_vars

\* C7: reconnect bound: a frame source whose underlying source has always
\* failed never makes more than max_attempts reopen attempts
C7_ReconnectBound == ~ever_up => reopens <= max_attempts

(***************************************************************************)
(* Engine creation: InferenceFactory.create_engine and the part of         *)
(* TaskExecutor._initialize that uses it                                   *)
(***************************************************************************)
PlatformNames == {"cpu_x86", "cpu_arm", "atlas_npu", "unknown_platform"}
\* the 'platform' setting is missing, a string, or a dict with or without 'name'
PlatformSettings ==
    {[kind |-> "missing", name |-> "none"], [kind |-> "dict", name |-> "none"]}
        \cup [kind : {"str", "dict"}, name : PlatformNames]
\* _engines after _auto_register_engines: the CPU engine under its two names when
\* its import works, the Atlas engine when its module is installed
Registrations == {{}, {"cpu_x86", "cpu_arm"}, {"cpu_x86", "cpu_arm", "atlas_npu"}}

\* platform = self.config.get('platform', 'cpu_arm'), and the 'name' of a dict
get_platform ==
    /\ init_pc = "platform"
    /\ platform' = IF config_platform.name = "none" THEN "cpu_arm"
                   ELSE config_platform.name
    /\ init_pc' = "create"
    /\ UNCHANGED <<config_platform, engines, ctor_ok, model_loads, inference_engine>>

\* what InferenceFactory.create_engine returns
create_engine(p) ==
    IF p \notin engines THEN "None"
    ELSE IF ctor_ok THEN p ELSE "None"

\* self.inference_engine = InferenceFactory.create_engine(...)
CreateEngine ==
    /\ init_pc = "create"
    /\ inference_engine' = create_engine(platform)
    /\ init_pc' = "load"
    /\ UNCHANGED <<config_platform, engines, ctor_ok, model_loads, platform>>

\* if not self.inference_engine.load_model(model_path): raise ValueError
LoadModel ==
    /\ init_pc = "load"
    /\ init_pc' = IF inference_engine # "None" /\ model_loads THEN "done" ELSE "raised"
    /\ UNCHANGED <<config_platform, engines, ctor_ok, model_loads, platform,
                   inference_engine>>

\* the variables engine creation leaves alone
nonEngine == <<schedVars, requests, alertVars, frameVars, windowVars,
    workerVars>>

InitEngine ==
    /\ SchedIdle
    /\ WorkerIdle
    /\ AlertIdle
    /\ FrameIdle
    /\ WindowIdle
    /\ config_platform \in PlatformSettings
    /\ engines \in Registrations
    /\ ctor_ok \in BOOLEAN
    /\ model_loads \in BOOLEAN
    /\ init_pc = "platform"
    /\ platform = "none"
    /\ inference_engine = "None"

NextEngine ==
    \/ get_platform /\ UNCHANGED nonEngine
    \/ CreateEngine /\ UNCHANGED nonEngine
    \/ LoadModel /\ UNCHANGED nonEngine

EngineSpec == InitEngine /\ [][NextEngine]_vars

\* C8: no silent default backend: the factory returns no engine for a platform
\* that is not registered, and an executor holds an engine only if its platform
\* setting names a registered platform, the one the engine was made for
C8_NoSilentDefault ==
    /\ \A p \in PlatformNames : p \notin engines => create_engine(p) = "None"
    /\ inference_engine # "None" =>
          /\ config_platform.name \in engines
          /\ inference_engine = config_platform.name

(***************************************************************************)
(* Schedule windows: TaskExecutor._is_in_execution_time of the threaded    *)
(* scheduler and sync_and_schedule_all_tasks of the process model, for an  *)
(* enabled task whose stored status is "stopped"                           *)
(***************************************************************************)
\* times of the day, in hours
Hours == 0..23
ScheduleTypes == {"continuous", "daily", "monthly"}

\* start_time <= current_time <= end_time
time_in_range(current_time) ==
    schedule.start_time <= current_time /\ current_time <= schedule.end_time

is_in_execution_time(current_time) ==
    IF schedule.schedule_type = "continuous" THEN TRUE
    ELSE time_in_range(current_time)

\* time_is_right of sync_and_schedule_all_tasks
time_is_right(current_time) ==
    IF schedule.end_time > schedule.start_time
    THEN schedule.start_time <= current_time /\ current_time < schedule.end_time
    ELSE current_time >= schedule.start_time \/ current_time < schedule.end_time

\* one pass of _execution_loop: detect, or time.sleep(60) outside the window
execution_pass ==
    /\ loop' = [state |-> IF is_in_execution_time(clock) THEN "detect" ELSE "sleep60",
                at |-> clock]
    /\ UNCHANGED <<clock, schedule, proc_started>>

\* sync_and_schedule_all_tasks: a stopped, enabled, scheduled task is started
\* when the time is right (its schedule_days are empty)
sync_and_schedule_all_tasks ==
    /\ ~proc_started
    /\ schedule.schedule_type # "continuous"
    /\ time_is_right(clock)
    /\ proc_started' = TRUE
    /\ UNCHANGED <<clock, schedule, loop>>

HourPasses ==
    /\ clock' = (clock + 1) % 24
    /\ UNCHANGED <<schedule, loop, proc_started>>

\* the variables the schedule windows leave alone
nonWindow == <<schedVars, requests, alertVars, frameVars, engineVars,
    workerVars>>

InitWindow ==
    /\ SchedIdle
    /\ WorkerIdle
    /\ AlertIdle
    /\ FrameIdle
    /\ EngineIdle
    /\ clock \in Hours
    /\ schedule \in [schedule_type : ScheduleTypes, start_time : Hours, end_time : Hours]
    /\ loop = [state |-> "new", at |-> 0]
    /\ proc_started = FALSE

NextWindow ==
    \/ execution_pass /\ UNCHANGED nonWindow
    \/ sync_and_schedule_all_tasks /\ UNCHANGED nonWindow
    \/ HourPasses /\ UNCHANGED nonWindow

WindowSpec == InitWindow /\ [][NextWindow]_vars

\* C9: midnight-wrapping window: for a daily task whose end is earlier than its
\* start, a pass of the executor's loop at time t performs detection exactly
\* when t >= start or t < end
C9_WrapWindow ==
    (schedule.schedule_type = "daily" /\ schedule.end_time < schedule.start_time
        /\ loop.state # "new") =>
        ((loop.state = "detect") <=>
            (loop.at >= schedule.start_time \/ loop.at < schedule.end_time))

(***************************************************************************)
(* The detection loop of one executor: TaskExecutor._execution_loop with   *)
(* TaskExecutor.stop (src/src/components/task_scheduler.py) and the loop   *)
(* of run_task_in_background (src/api/main.py). Time is in tenths of a     *)
(* second.                                                                 *)
(***************************************************************************)
\* passes of the loop followed in one behaviour
MaxIterations == 3
\* the clock when the loop starts (time.time() is far from the 0 that
\* last_detection_time starts with)
StartTime == 100
\* time.sleep(0.1) at the end of a pass
pass_sleep == 1
\* time.sleep(1.0) in the except branch
error_sleep == 10
\* time.sleep(60) outside the execution time
window_sleep == 600
\* execution_thread.join(timeout=5.0)
join_timeout == 50
\* time.sleep(5) when the process cannot open the source
open_retry_sleep == 50
InferenceIntervals == {10}
\* how long a detect call takes: no time, or a second
DetectTimes == {0, 10}
\* self.video_processors / task.video_sources, in their order
LoopSources == <<"cam1", "cam2">>
SourceNames == {LoopSources[i] : i \in DOMAIN LoopSources}
LoopKinds == {"thread", "process"}
\* what happens to a source that is due, in the threaded loop: get_frame
\* returns None, detect or _process_detections raises, or all goes through
ThreadOutcomes == {"no_frame", "raises", "ok"}
\* and in the process loop
ProcessOutcomes == {"open_fails", "read_fails", "inference_raises",
                    "processing_raises", "ok"}

\* while stop() waits in execution_thread.join, the clock does not pass the
\* moment the join gives up before the join has returned
ClockMayReach(t) == lx_stop = "join" => t <= lx_deadline

\* the times of the last two inferences, after one more at time t
Remember(times, t) == IF Len(times) < 2 THEN Append(times, t) ELSE <<times[2], t>>

\* _execution_loop: `while self.is_running`, current_time = time.time(), and
\* `if not self._is_in_execution_time(): time.sleep(60); continue`
ExecutionLoopTop ==
    /\ lx_kind = "thread"
    /\ lx_pc = "top"
    /\ IF ~lx_running
       THEN /\ lx_pc' = "exited"
            /\ UNCHANGED <<lx_current_time, lx_todo, lx_wake, lx_iterations>>
       ELSE /\ lx_iterations < MaxIterations
            /\ lx_iterations' = lx_iterations + 1
            /\ lx_current_time' = lx_now
            /\ IF lx_in_window
               THEN /\ lx_pc' = "sources"
                    /\ lx_todo' = LoopSources
                    /\ UNCHANGED lx_wake
               ELSE /\ lx_pc' = "idle"
                    /\ lx_wake' = lx_now + window_sleep
                    /\ UNCHANGED lx_todo
    /\ UNCHANGED <<lx_kind, lx_running, lx_now, last_detection_time, lx_inferred,
                   lx_in_window, lx_stop, lx_deadline, lx_readers, inference_interval>>

\* the source is skipped: less than inference_interval since its last detection
NotDue(source_url) ==
    lx_current_time - last_detection_time[source_url] < inference_interval

\* _execution_loop: one pass of `for source_url, processor in ...`, and after
\* the last one time.sleep(0.1); an exception ends the for loop in the except
\* branch, time.sleep(1.0)
ExecutionLoopSource(outcome, d) ==
    /\ lx_kind = "thread"
    /\ lx_pc = "sources"
    /\ IF lx_todo = <<>>
       THEN /\ lx_pc' = "pause"
            /\ lx_wake' = lx_now + pass_sleep
            /\ UNCHANGED <<lx_now, lx_todo, last_detection_time, lx_inferred>>
       ELSE LET source_url == Head(lx_todo)
            IN  IF NotDue(source_url) \/ outcome = "no_frame"
                THEN /\ lx_todo' = Tail(lx_todo)
                     /\ UNCHANGED <<lx_pc, lx_wake, lx_now, last_detection_time,
                                    lx_inferred>>
                ELSE /\ ClockMayReach(lx_now + d)
                     /\ lx_now' = lx_now + d
                     /\ IF outcome = "raises"
                        THEN /\ lx_pc' = "backoff"
                             /\ lx_wake' = lx_now + d + error_sleep
                             /\ lx_todo' = <<>>
                             /\ UNCHANGED <<last_detection_time, lx_inferred>>
                        ELSE /\ lx_inferred' = [lx_inferred EXCEPT ![source_url] =
                                                    Remember(@, lx_now)]
                             /\ last_detection_time' =
                                    [last_detection_time EXCEPT ![source_url] =
                                        lx_current_time]
                             /\ lx_todo' = Tail(lx_todo)
                             /\ UNCHANGED <<lx_pc, lx_wake>>
    /\ UNCHANGED <<lx_kind, lx_running, lx_current_time, lx_in_window, lx_iterations,
                   lx_stop, lx_deadline, lx_readers, inference_interval>>

\* the time.sleep the loop is in ends
ExecutionLoopWake ==
    /\ lx_kind = "thread"
    /\ lx_pc \in {"pause", "backoff", "idle"}
    /\ ClockMayReach(lx_wake)
    /\ lx_now' = lx_wake
    /\ lx_pc' = "top"
    /\ UNCHANGED <<lx_kind, lx_running, lx_wake, lx_current_time, lx_todo,
                   last_detection_time, lx_inferred, lx_in_window, lx_iterations,
                   lx_stop, lx_deadline, lx_readers, inference_interval>>

\* TaskExecutor.stop up to the join: is_running = False; processor.stop() for
\* every processor, which sets VideoCapture.running = False and joins the
\* reader with timeout=1 and the processing thread with timeout=2.0
ExecutorStop ==
    /\ lx_kind = "thread"
    /\ lx_stop = "idle"
    /\ lx_running
    /\ lx_running' = FALSE
    /\ lx_readers' = [s \in SourceNames |->
                         IF lx_readers[s] = "alive" THEN "stopreq" ELSE lx_readers[s]]
    /\ lx_stop' = "join"
    /\ lx_deadline' = lx_now + join_timeout
    /\ UNCHANGED <<lx_kind, lx_pc, lx_wake, lx_now, lx_current_time, lx_todo,
                   last_detection_time, lx_inferred, lx_in_window, lx_iterations,
                   inference_interval>>

\* execution_thread.join(timeout=5.0) returns: the thread has ended, or the
\* thread sleeps past the timeout
ExecutorStopReturns ==
    /\ lx_kind = "thread"
    /\ lx_stop = "join"
    /\ \/ lx_pc = "exited" /\ UNCHANGED lx_now
       \/ /\ lx_pc \in {"pause", "backoff", "idle"}
          /\ lx_wake > lx_deadline
          /\ lx_now' = lx_deadline
    /\ lx_stop' = "returned"
    /\ UNCHANGED <<lx_kind, lx_running, lx_pc, lx_wake, lx_current_time, lx_todo,
                   last_detection_time, lx_inferred, lx_in_window, lx_iterations,
                   lx_deadline, lx_readers, inference_interval>>

\* VideoCapture._read_thread comes back from the decode call, sees running
\* False and ends
LoopReaderExit(s) ==
    /\ lx_kind = "thread"
    /\ lx_readers[s] = "stopreq"
    /\ lx_readers' = [lx_readers EXCEPT ![s] = "dead"]
    /\ UNCHANGED <<lx_kind, lx_running, lx_pc, lx_wake, lx_now, lx_current_time,
                   lx_todo, last_detection_time, lx_inferred, lx_in_window,
                   lx_iterations, lx_stop, lx_deadline, inference_interval>>

\* run_task_in_background: `while True`, the task is fetched again and the
\* loop is left when it is no longer enabled and running
BackgroundTop ==
    /\ lx_kind = "process"
    /\ lx_pc = "top"
    /\ IF ~lx_running
       THEN lx_pc' = "exited" /\ UNCHANGED <<lx_todo, lx_iterations>>
       ELSE /\ lx_iterations < MaxIterations
            /\ lx_iterations' = lx_iterations + 1
            /\ lx_todo' = LoopSources
            /\ lx_pc' = "sources"
    /\ UNCHANGED <<lx_kind, lx_running, lx_wake, lx_now, lx_current_time,
                   last_detection_time, lx_inferred, lx_in_window, lx_stop,
                   lx_deadline, lx_readers, inference_interval>>

\* run_task_in_background: one pass of `for source in current_task.video_sources`
\* with the sleep that ends it; an exception of model.inference is caught in
\* the loop, any other exception is caught outside `while True`
BackgroundSource(outcome) ==
    /\ lx_kind = "process"
    /\ lx_pc = "sources"
    /\ IF lx_todo = <<>>
       THEN lx_pc' = "top" /\ UNCHANGED <<lx_now, lx_todo, lx_inferred>>
       ELSE LET source_url == Head(lx_todo)
            IN  /\ lx_todo' = Tail(lx_todo)
                /\ lx_pc' = IF outcome = "processing_raises" THEN "exited" ELSE "sources"
                /\ lx_now' = IF outcome = "open_fails" THEN lx_now + open_retry_sleep
                             ELSE IF outcome = "processing_raises" THEN lx_now
                             ELSE lx_now + inference_interval
                /\ lx_inferred' = IF outcome \in {"processing_raises", "ok"}
                                  THEN [lx_inferred EXCEPT ![source_url] =
                                           Remember(@, lx_now)]
                                  ELSE lx_inferred
    /\ UNCHANGED <<lx_kind, lx_running, lx_wake, lx_current_time,
                   last_detection_time, lx_in_window, lx_iterations, lx_stop,
                   lx_deadline, lx_readers, inference_interval>>

\* the request layer stops the task of the process: status 'stopped', disabled
DisableTask ==
    /\ lx_kind = "process"
    /\ lx_running
    /\ lx_running' = FALSE
    /\ UNCHANGED <<lx_kind, lx_pc, lx_wake, lx_now, lx_current_time, lx_todo,
                   last_detection_time, lx_inferred, lx_in_window, lx_iterations,
                   lx_stop, lx_deadline, lx_readers, inference_interval>>

\* the variables the detection loop leaves alone
nonLoop == <<schedVars, requests, alertVars, frameVars, engineVars, windowVars,
             ctorVars, pushVars,
             captureVars, detailVars>>

\* an executor that has just been started
InitLoop ==
    /\ SchedIdle
    /\ AlertIdle
    /\ FrameIdle
    /\ EngineIdle
    /\ WindowIdle
    /\ CtorIdle
    /\ PushIdle
    /\ CaptureIdle
    /\ DetailIdle
    /\ lx_kind \in LoopKinds
    /\ lx_running = TRUE
    /\ lx_pc = "top"
    /\ lx_wake = 0
    /\ lx_now = StartTime
    /\ lx_current_time = 0
    /\ lx_todo = <<>>
    /\ last_detection_time = [s \in SourceNames |-> 0]
    /\ lx_inferred = [s \in SourceNames |-> <<>>]
    /\ lx_in_window \in BOOLEAN
    /\ lx_kind = "process" => lx_in_window
    /\ lx_iterations = 0
    /\ lx_stop = "idle"
    /\ lx_deadline = 0
    /\ lx_readers = [s \in SourceNames |-> IF lx_kind = "thread" THEN "alive" ELSE "none"]
    /\ inference_interval \in InferenceIntervals

NextLoop ==
    \/ ExecutionLoopTop /\ UNCHANGED nonLoop
    \/ \E outcome \in ThreadOutcomes, d \in DetectTimes :
           ExecutionLoopSource(outcome, d) /\ UNCHANGED nonLoop
    \/ ExecutionLoopWake /\ UNCHANGED nonLoop
    \/ ExecutorStop /\ UNCHANGED nonLoop
    \/ ExecutorStopReturns /\ UNCHANGED nonLoop
    \/ \E s \in SourceNames : LoopReaderExit(s) /\ UNCHANGED nonLoop
    \/ BackgroundTop /\ UNCHANGED nonLoop
    \/ \E outcome \in ProcessOutcomes : BackgroundSource(outcome) /\ UNCHANGED nonLoop
    \/ DisableTask /\ UNCHANGED nonLoop

LoopSpec == InitLoop /\ [][NextLoop]_vars

\* C13: when TaskExecutor.stop() has returned, the execution-loop thread has
\* terminated and the reader of every frame source of the task has stopped,
\* whatever the loop was doing when stop() was called
C13_StopReleases ==
    lx_stop = "returned" =>
        /\ lx_pc = "exited"
        /\ \A s \in SourceNames : lx_readers[s] = "dead"

\* C15: an exception raised while one frame is processed never terminates the
\* detection loop: the loop has only ended if the executor was stopped
C15_LoopSurvivesErrors == lx_pc = "exited" => ~lx_running

\* C18: independent per-source timers: two consecutive inferences on the same
\* source are at least inference_interval apart
C18_PerSourceTimers ==
    \A s \in SourceNames :
        Len(lx_inferred[s]) = 2 =>
            lx_inferred[s][2] - lx_inferred[s][1] >= inference_interval

(***************************************************************************)
(* Construction of an executor: TaskExecutor._initialize                   *)
(* (src/src/components/task_scheduler.py) with VideoProcessor.__init__ and *)
(* VideoCapture.__init__ (src/src/components/video_input.py)               *)
(***************************************************************************)
\* number of video sources of the task
MaxSources == 2
ModelStates == {"ok", "missing", "engine_fails", "load_fails"}
\* an entry of video_sources: its url opens, its url cannot be opened, it has
\* no url, or it is not a dict (video_source.get raises)
SourceKinds == {"opens", "unopenable", "no_url", "malformed"}
SourceLists == UNION {[1..n -> SourceKinds] : n \in 0..MaxSources}

\* model = model_repo.get_model_by_id(...); if not model: raise ValueError
InitializeModel ==
    /\ ct_pc = "model"
    /\ ct_pc' = IF ct_model = "missing" THEN "raised" ELSE "engine"
    /\ UNCHANGED <<ct_model, ct_sources, ct_i, ct_processors, ct_open, ct_readers>>

\* create_engine and load_model: a None engine or a False load_model raises
InitializeEngine ==
    /\ ct_pc = "engine"
    /\ ct_pc' = IF ct_model \in {"engine_fails", "load_fails"} THEN "raised" ELSE "sources"
    /\ ct_i' = 1
    /\ UNCHANGED <<ct_model, ct_sources, ct_processors, ct_open, ct_readers>>

\* one pass of `for i, video_source in enumerate(self.task.video_sources)`:
\* VideoProcessor(video_config) constructs VideoCapture(source, threaded=True),
\* which starts its reader thread when the source opened; an exception is
\* logged and raised again, by the loop and by _initialize
InitializeSource ==
    /\ ct_pc = "sources"
    /\ IF ct_i > Len(ct_sources)
       THEN ct_pc' = "done" /\ UNCHANGED <<ct_i, ct_processors, ct_open, ct_readers>>
       ELSE IF ct_sources[ct_i] = "malformed"
            THEN ct_pc' = "raised" /\ UNCHANGED <<ct_i, ct_processors, ct_open, ct_readers>>
            ELSE /\ ct_i' = ct_i + 1
                 /\ ct_processors' = IF ct_sources[ct_i] = "no_url" THEN ct_processors
                                     ELSE ct_processors \cup {ct_i}
                 /\ ct_open' = IF ct_sources[ct_i] = "opens" THEN ct_open \cup {ct_i}
                               ELSE ct_open
                 /\ ct_readers' = IF ct_sources[ct_i] = "opens" THEN ct_readers \cup {ct_i}
                                  ELSE ct_readers
                 /\ UNCHANGED ct_pc
    /\ UNCHANGED <<ct_model, ct_sources>>

\* the variables the construction leaves alone
nonCtor == <<schedVars, requests, alertVars, frameVars, engineVars, windowVars,
             loopVars, pushVars,
             captureVars, detailVars>>

InitCtor ==
    /\ SchedIdle
    /\ AlertIdle
    /\ FrameIdle
    /\ EngineIdle
    /\ WindowIdle
    /\ LoopIdle
    /\ PushIdle
    /\ CaptureIdle
    /\ DetailIdle
    /\ ct_model \in ModelStates
    /\ ct_sources \in SourceLists
    /\ ct_pc = "model"
    /\ ct_i = 0
    /\ ct_processors = {}
    /\ ct_open = {}
    /\ ct_readers = {}

NextCtor ==
    \/ InitializeModel /\ UNCHANGED nonCtor
    \/ InitializeEngine /\ UNCHANGED nonCtor
    \/ InitializeSource /\ UNCHANGED nonCtor

CtorSpec == InitCtor /\ [][NextCtor]_vars

\* C14: once the constructor of TaskExecutor has raised, no frame source
\* opened during the construction is still open and no reader thread started
\* for one is still running
C14_NoLeakOnFailure == ct_pc = "raised" => (ct_open = {} /\ ct_readers = {})

(***************************************************************************)
(* Notification fan-out: PushNotificationManager.push_alert                *)
(* (src/src/components/push_notification.py)                               *)
(***************************************************************************)
\* the protocols _init_pushers knows, in the order it adds them to self.pushers
Protocols == <<"mqtt", "http", "rabbitmq", "kafka">>
ProtocolNames == {Protocols[i] : i \in DOMAIN Protocols}
\* what pusher.push does: returns True, returns False, gives up after its
\* timeout, or raises
PushOutcomes == {"True", "False", "times_out", "raises"}

\* the members of S in the order of seq
RECURSIVE InOrder(_, _)
InOrder(seq, S) ==
    IF seq = <<>> THEN <<>>
    ELSE IF Head(seq) \in S THEN <<Head(seq)>> \o InOrder(Tail(seq), S)
    ELSE InOrder(Tail(seq), S)

\* a push_alert without its `except Exception` branch
ExceptionNotCaught(outcome) == FALSE

\* `except Exception as e` around pusher.push: the exception is caught
ExceptionCaught(outcome) == outcome = "raises"

\* success = pusher.push(alert_info): a pusher that gives up after its
\* timeout returns False
PushSuccess(outcome) == outcome = "True"

\* push_alert: results = {} and the start of the for loop
push_alert ==
    /\ push_pc = "idle"
    /\ results' = <<>>
    /\ push_outcomes' = <<>>
    /\ push_todo' = InOrder(Protocols, pushers)
    /\ push_pc' = "loop"
    /\ UNCHANGED pushers

\* push_alert: one pass of the for loop, and after the last one `return results`
PushOne(outcome) ==
    /\ push_pc = "loop"
    /\ IF push_todo = <<>>
       THEN push_pc' = "returned" /\ UNCHANGED <<push_todo, push_outcomes, results>>
       ELSE LET protocol == Head(push_todo)
            IN  /\ push_outcomes' = (protocol :> outcome) @@ push_outcomes
                /\ IF outcome = "raises" /\ ~ExceptionCaught(outcome)
                   THEN push_pc' = "raised" /\ UNCHANGED <<push_todo, results>>
                   ELSE /\ results' = (protocol :> PushSuccess(outcome)) @@ results
                        /\ push_todo' = Tail(push_todo)
                        /\ UNCHANGED push_pc
    /\ UNCHANGED pushers

\* the variables the notification manager leaves alone
nonPush == <<schedVars, requests, alertVars, frameVars, engineVars, windowVars,
             loopVars, ctorVars,
             captureVars, detailVars>>

\* a manager constructed from a configuration that enables some protocols
InitPush ==
    /\ SchedIdle
    /\ AlertIdle
    /\ FrameIdle
    /\ EngineIdle
    /\ WindowIdle
    /\ LoopIdle
    /\ CtorIdle
    /\ CaptureIdle
    /\ DetailIdle
    /\ pushers \in SUBSET ProtocolNames
    /\ push_pc = "idle"
    /\ push_todo = <<>>
    /\ push_outcomes = <<>>
    /\ results = <<>>

NextPush ==
    \/ push_alert /\ UNCHANGED nonPush
    \/ \E outcome \in PushOutcomes : PushOne(outcome) /\ UNCHANGED nonPush

PushSpec == InitPush /\ [][NextPush]_vars

\* C16: sink isolation: push_alert never raises, and when it has returned
\* every configured sink has been attempted, whatever the other sinks did,
\* and the result holds one entry per configured sink, True exactly for the
\* sinks whose push succeeded (no entry at all without sinks)
C16_SinkIsolation ==
    /\ push_pc # "raised"
    /\ push_pc = "returned" =>
          /\ DOMAIN push_outcomes = pushers
          /\ DOMAIN results = pushers
          /\ \A p \in pushers : results[p] = (push_outcomes[p] = "True")

\* push_alert has returned after the first sink raised, the second gave up
\* after its timeout, the third returned False and the last one succeeded
C16_Witness ==
    /\ push_pc = "returned"
    /\ pushers = ProtocolNames
    /\ push_outcomes["mqtt"] = "raises"
    /\ push_outcomes["http"] = "times_out"
    /\ push_outcomes["rabbitmq"] = "False"
    /\ push_outcomes["kafka"] = "True"
    /\ results["kafka"] /\ ~results["mqtt"]

(***************************************************************************)
(* One frame source with its reader thread, its consumer and its decoder   *)
(* handle: VideoCapture of src/src/components/video_input.py (_read_thread,*)
(* read, stop, cleanup) and VideoCapture of src/api/main.py (_reader, read,*)
(* release)                                                                *)
(***************************************************************************)
\* frames the decoder delivers in one behaviour
MaxFrames == 3
\* frames the consumer is handed in one behaviour
MaxReads == 3
CaptureClasses == {"threaded", "grabber"}

\* a buffer that keeps the frame it holds
KeepFrame(slot, frame) == IF slot = 0 THEN frame ELSE slot

\* self.last_frame = frame; for the deque of length 1: popleft() when it is
\* full, then append(frame)
StoreFrame(slot, frame) == frame

\* the top of the reader's loop: `while self.running and self.is_opened`
\* (stop() leaves is_opened alone), `while self.running`
CapReaderLoop ==
    /\ cp_reader = "loop"
    /\ cp_reader' = IF cp_running THEN "decode" ELSE "dead"
    /\ UNCHANGED <<cp_class, cp_source_ok, cp_decoded, cp_slot, cp_got, cp_read,
                   cp_failed, cp_running, cp_handle, cp_releases, cp_stop>>

\* the decode call returns: a frame is stored in the buffer; on a failure the
\* threaded reader leaves last_frame as it is and the grabber releases the
\* capture and goes to open the source again. A decode on a handle that was
\* released during the call gives a frame or not (ub_frame)
CapDecode(ub_frame) ==
    /\ cp_reader = "decode"
    /\ LET ret == IF cp_handle = "open" THEN cp_source_ok
                  ELSE IF cp_handle = "released" THEN ub_frame
                  ELSE FALSE
       IN  IF ret
           THEN /\ cp_decoded < MaxFrames
                /\ cp_decoded' = cp_decoded + 1
                /\ cp_slot' = StoreFrame(cp_slot, cp_decoded + 1)
                /\ cp_failed' = FALSE
                /\ cp_reader' = "loop"
                /\ UNCHANGED <<cp_handle, cp_releases>>
           ELSE /\ cp_failed' = TRUE
                /\ cp_reader' = IF cp_class = "grabber" THEN "reopen" ELSE "loop"
                /\ cp_handle' = IF cp_class = "grabber" THEN "released" ELSE cp_handle
                /\ cp_releases' = IF cp_class = "grabber" /\ cp_handle = "open"
                                  THEN cp_releases + 1 ELSE cp_releases
                /\ UNCHANGED <<cp_decoded, cp_slot>>
    /\ UNCHANGED <<cp_class, cp_source_ok, cp_got, cp_read, cp_running, cp_stop>>

\* the grabber, after time.sleep(1): self.cap = cv2.VideoCapture(self.src)
CapReopen ==
    /\ cp_reader = "reopen"
    /\ cp_handle' = IF cp_source_ok THEN "open" ELSE "closed"
    /\ cp_releases' = 0
    /\ cp_reader' = "loop"
    /\ UNCHANGED <<cp_class, cp_source_ok, cp_decoded, cp_slot, cp_got, cp_read,
                   cp_failed, cp_running, cp_stop>>

\* read(): the threaded capture returns a copy of last_frame when there is
\* one; the grabber calls self.q.get_nowait() on a deque, which raises
\* AttributeError, and returns (False, None) from `except Exception`
CapRead ==
    /\ cp_class # "none"
    /\ Len(cp_got) < MaxReads
    /\ LET ret == cp_class = "threaded" /\ cp_slot # 0
       IN  /\ cp_read' = [ret |-> ret, failing |-> cp_failed]
           /\ cp_got' = IF ret THEN Append(cp_got, cp_slot) ELSE cp_got
    /\ UNCHANGED <<cp_class, cp_source_ok, cp_decoded, cp_slot, cp_failed,
                   cp_running, cp_reader, cp_handle, cp_releases, cp_stop>>

\* the camera goes away or comes back
CapSourceChanges ==
    /\ cp_class # "none"
    /\ cp_source_ok' = ~cp_source_ok
    /\ UNCHANGED <<cp_class, cp_decoded, cp_slot, cp_got, cp_read, cp_failed,
                   cp_running, cp_reader, cp_handle, cp_releases, cp_stop>>

\* stop() / release(): self.running = False
CapStop ==
    /\ cp_class # "none"
    /\ cp_stop = "idle"
    /\ cp_running' = FALSE
    /\ cp_stop' = "join"
    /\ UNCHANGED <<cp_class, cp_source_ok, cp_decoded, cp_slot, cp_got, cp_read,
                   cp_failed, cp_reader, cp_handle, cp_releases>>

\* the join returns: self.thread.join(timeout=1) of the threaded capture when
\* the reader has ended or is still inside the decode call after a second,
\* self.thread.join() of the grabber when the reader has ended; then
\* cleanup() / `if self.cap.isOpened(): self.cap.release()`
CapStopJoined ==
    /\ cp_stop = "join"
    /\ cp_reader \in (IF cp_class = "threaded" THEN {"dead", "decode"} ELSE {"dead"})
    /\ cp_handle' = IF cp_handle = "open" THEN "released" ELSE cp_handle
    /\ cp_releases' = IF cp_handle = "open" THEN cp_releases + 1 ELSE cp_releases
    /\ cp_stop' = "returned"
    /\ UNCHANGED <<cp_class, cp_source_ok, cp_decoded, cp_slot, cp_got, cp_read,
                   cp_failed, cp_running, cp_reader>>

\* the variables the capture leaves alone
nonCapture == <<schedVars, requests, alertVars, frameVars, engineVars, windowVars,
                loopVars, ctorVars, pushVars, detailVars>>

\* a capture whose source opened and whose reader has been started
InitCapture ==
    /\ SchedIdle
    /\ AlertIdle
    /\ FrameIdle
    /\ EngineIdle
    /\ WindowIdle
    /\ LoopIdle
    /\ CtorIdle
    /\ PushIdle
    /\ DetailIdle
    /\ cp_class \in CaptureClasses
    /\ cp_source_ok = TRUE
    /\ cp_decoded = 0
    /\ cp_slot = 0
    /\ cp_got = <<>>
    /\ cp_read = [ret |-> FALSE, failing |-> FALSE]
    /\ cp_failed = FALSE
    /\ cp_running = TRUE
    /\ cp_reader = "loop"
    /\ cp_handle = "open"
    /\ cp_releases = 0
    /\ cp_stop = "idle"

NextCapture ==
    \/ CapReaderLoop /\ UNCHANGED nonCapture
    \/ \E ub_frame \in BOOLEAN : CapDecode(ub_frame) /\ UNCHANGED nonCapture
    \/ CapReopen /\ UNCHANGED nonCapture
    \/ CapRead /\ UNCHANGED nonCapture
    \/ CapSourceChanges /\ UNCHANGED nonCapture
    \/ CapStop /\ UNCHANGED nonCapture
    \/ CapStopJoined /\ UNCHANGED nonCapture

CaptureSpec == InitCapture /\ [][NextCapture]_vars

\* C17: capture order: the buffer holds the single most recent frame the
\* decoder has delivered, and the consumer is never handed a frame captured
\* earlier than one it was handed before
C17_CaptureOrder ==
    /\ cp_slot = cp_decoded
    /\ \A i, j \in DOMAIN cp_got : i < j => cp_got[i] <= cp_got[j]

\* the consumer of a threaded capture read frame 1 and then frame 3: frame 2
\* came and went between its two reads
C17_Witness ==
    /\ cp_class = "threaded"
    /\ Len(cp_got) >= 2
    /\ cp_got[1] = 1
    /\ cp_got[2] = 3

\* C19: read() returns "no frame available" while the source is failing: a
\* read() made after the reader's last decode failed returns no frame
C19_NoStaleFrame == cp_read.failing => ~cp_read.ret

\* C20: when stop() has returned the reader thread has ended and the decoder
\* handle has been released, once; and the reader is never inside a decode
\* call on a released handle
C20_DeterministicStop ==
    /\ cp_stop = "returned" =>
          /\ cp_reader = "dead"
          /\ cp_handle # "open"
          /\ cp_releases <= 1
    /\ cp_handle = "released" => cp_reader # "decode"

(***************************************************************************)
(* The alert path of one task, detection by detection:                     *)
(* TaskExecutor._process_detections with AlertManager.should_debounce_alert*)
(* (threaded executor) and the alert loop of run_task_in_background        *)
(* (process model)                                                         *)
(***************************************************************************)
\* detections processed in one behaviour
MaxDetections == 3
AlertPaths == {"thread", "process"}
\* the task's id as it is written into the key
TaskIdText == "7"
\* source urls and class names as the pieces between their underscores
SourceUrls == {<<"rtsp://a/cam1">>, <<"rtsp://a/cam2">>, <<"rtsp://b/cam", "3">>}
ClassNames == {<<"person">>}
\* boxes [x1, y1, x2, y2]: one at the top left, the same moved by a few
\* pixels, one far away
DetectionBoxes == {<<0, 0, 100, 100>>, <<4, 2, 110, 108>>, <<400, 400, 600, 600>>}
\* save_alert_image and create_alert succeed; create_alert returns None
PersistOutcomes == {"ok", "create_returns_none"}

\* f"{self.task.id}_{source_url}_{class_name}", as its pieces
AlertKey(source_url, class_name) == <<TaskIdText>> \o source_url \o class_name

\* alert_key.split('_', 2)
Split2(pieces) ==
    IF Len(pieces) >= 3
    THEN <<<<pieces[1]>>, <<pieces[2]>>, SubSeq(pieces, 3, Len(pieces))>>
    ELSE [i \in 1..Len(pieces) |-> <<pieces[i]>>]

\* the key should_debounce_alert hands to should_alert: class_name = parts[2]
\* (or 'unknown') and the fixed box [0, 0, 100, 100]
ExecutorDebounceKey(source_url, class_name) ==
    LET parts == Split2(AlertKey(source_url, class_name))
    IN  generate_alert_key(
            [class_name |-> IF Len(parts) >= 3 THEN parts[3] ELSE <<"unknown">>,
             bbox |-> <<0, 0, 100, 100>>])

\* one iteration of the loop of _process_detections: the debounce decision,
\* which records the time when it allows the alert, then save_alert_image
\* and create_alert; record_alert_time does nothing, and nothing hands the
\* alert to the PushNotificationManager
ProcessDetection(source_url, class_name, bbox, outcome) ==
    LET key == ExecutorDebounceKey(source_url, class_name)
        debounced == Suppressed(ap_history, ap_W, key, ap_now)
    IN  /\ ap_path = "thread"
        /\ Len(ap_events) < MaxDetections
        /\ ap_history' = HistoryAfter(ap_history, ap_W, key, ap_now)
        /\ ap_rows' = IF ~debounced /\ outcome = "ok"
                      THEN ap_rows \cup {[class_name |-> class_name, t |-> ap_now]}
                      ELSE ap_rows
        /\ ap_events' = Append(ap_events,
               [source_url |-> source_url, class_name |-> class_name, bbox |-> bbox,
                t |-> ap_now, debounced |-> debounced,
                persisted |-> ~debounced /\ outcome = "ok",
                dispatched |-> FALSE])
        /\ UNCHANGED <<ap_path, ap_now, ap_W>>

\* one iteration of the alert loop of run_task_in_background: the latest
\* alert of the task and class decides, then create_alert; nothing hands the
\* alert to a dispatcher
CreateAlertFor(source_url, class_name, bbox, outcome) ==
    LET times == {r.t : r \in {x \in ap_rows : x.class_name = class_name}}
        can_create_alert == \A t \in times : ~(ap_now - t < ap_W)
    IN  /\ ap_path = "process"
        /\ Len(ap_events) < MaxDetections
        /\ ap_rows' = IF can_create_alert /\ outcome = "ok"
                      THEN ap_rows \cup {[class_name |-> class_name, t |-> ap_now]}
                      ELSE ap_rows
        /\ ap_events' = Append(ap_events,
               [source_url |-> source_url, class_name |-> class_name, bbox |-> bbox,
                t |-> ap_now, debounced |-> ~can_create_alert,
                persisted |-> can_create_alert /\ outcome = "ok",
                dispatched |-> FALSE])
        /\ UNCHANGED <<ap_path, ap_now, ap_W, ap_history>>

\* time passes
PathAdvance ==
    /\ ap_path # "none"
    /\ ap_now < MaxTime
    /\ ap_now' = ap_now + 1
    /\ UNCHANGED <<ap_path, ap_W, ap_history, ap_rows, ap_events>>

\* the variables the alert path leaves alone
nonPath == <<schedVars, requests, alertVars, frameVars, engineVars, windowVars,
             loopVars, ctorVars, pushVars, captureVars, procVars, ownVars,
             starveVars>>

InitPath ==
    /\ SchedIdle
    /\ AlertIdle
    /\ FrameIdle
    /\ EngineIdle
    /\ WindowIdle
    /\ LoopIdle
    /\ CtorIdle
    /\ PushIdle
    /\ CaptureIdle
    /\ ProcIdle
    /\ OwnIdle
    /\ StarveIdle
    /\ ap_path \in AlertPaths
    /\ ap_now = 0
    /\ ap_W \in Windows
    /\ ap_history = <<>>
    /\ ap_rows = {}
    /\ ap_events = <<>>

NextPath ==
    \/ \E source_url \in SourceUrls, class_name \in ClassNames,
          bbox \in DetectionBoxes, outcome \in PersistOutcomes :
           ProcessDetection(source_url, class_name, bbox, outcome) /\ UNCHANGED nonPath
    \/ \E source_url \in SourceUrls, class_name \in ClassNames,
          bbox \in DetectionBoxes, outcome \in PersistOutcomes :
           CreateAlertFor(source_url, class_name, bbox, outcome) /\ UNCHANGED nonPath
    \/ PathAdvance /\ UNCHANGED nonPath

AlertPathSpec == InitPath /\ [][NextPath]_vars

\* detections i and j agree on source, class and spatial bucket (the task is
\* the one task of the executor)
SameDebounceKey(i, j) ==
    /\ ap_events[i].source_url = ap_events[j].source_url
    /\ generate_alert_key([class_name |-> ap_events[i].class_name, bbox |-> ap_events[i].bbox])
         = generate_alert_key([class_name |-> ap_events[j].class_name, bbox |-> ap_events[j].bbox])

\* C21: key equality by (task, source, class, spatial bucket): in the
\* executor's alert path a detection is debounced exactly when a detection of
\* the same source, class and bucket passed the debounce decision less than
\* W seconds before it
C21_KeyEquality ==
    ap_path = "thread" =>
        \A j \in 1..Len(ap_events) :
            ap_events[j].debounced <=>
                \E i \in 1..(j - 1) :
                    /\ ~ap_events[i].debounced
                    /\ SameDebounceKey(i, j)
                    /\ ap_events[j].t - ap_events[i].t < ap_W

\* C23: every alert that was persisted has been handed to the dispatcher
\* when its detection has been processed, and no alert is dispatched without
\* being persisted
C23_PersistThenDispatch ==
    \A i \in 1..Len(ap_events) :
        ap_events[i].persisted <=> ap_events[i].dispatched

\* C28: a failed persist does not consume the debounce window: when the
\* latest detection of a key that passed the debounce decision was not
\* persisted, the next detection of that key within W seconds is not
\* debounced
C28_FailedPersistKeepsWindow ==
    ap_path = "thread" =>
        \A i, j \in 1..Len(ap_events) :
            (/\ i < j
             /\ SameDebounceKey(i, j)
             /\ ~ap_events[i].debounced /\ ~ap_events[i].persisted
             /\ ap_events[j].t - ap_events[i].t < ap_W
             /\ \A k \in (i + 1)..(j - 1) : ~SameDebounceKey(i, k))
                => ~ap_events[j].debounced

(***************************************************************************)
(* The process model of src/api/main.py: the stored tasks, their cron      *)
(* jobs (schedule_task), the background processes (start_background_task,  *)
(* stop_background_task, the loop head of run_task_in_background), the     *)
(* start and stop requests and the sync at application startup             *)
(***************************************************************************)
ProcTasks == {1, 2}
ProcScheduleTypes == {"continuous", "daily"}
\* is_enabled and status as the requests leave them
StoredStates == {<<TRUE, "running">>, <<TRUE, "stopped">>, <<FALSE, "stopped">>}

\* start_background_task: a new process unless one is alive
start_background_task(procs, t) ==
    IF procs[t] = "alive" THEN procs ELSE [procs EXCEPT ![t] = "alive"]

\* stop_background_task: terminate, join, delete the entry
stop_background_task(procs, t) == [procs EXCEPT ![t] = "none"]

\* schedule_task: the old jobs are removed; the jobs are added again for an
\* enabled task that is not continuous
schedule_task(t, is_enabled) == is_enabled /\ pm_type[t] # "continuous"

\* Case 1 and Case 2 of sync_and_schedule_all_tasks: the task is started
SyncStarts(t) ==
    \/ pm_status[t] = "running" /\ pm_enabled[t]
    \/ /\ pm_enabled[t] /\ pm_status[t] = "stopped"
       /\ pm_type[t] # "continuous"
       /\ pm_in_window

\* application startup: start_scheduler calls sync_and_schedule_all_tasks
AppStartup ==
    /\ ~pm_up
    /\ pm_up' = TRUE
    /\ pm_jobs' = [t \in ProcTasks |-> schedule_task(t, pm_enabled[t])]
    /\ pm_status' = [t \in ProcTasks |-> IF SyncStarts(t) THEN "running" ELSE pm_status[t]]
    /\ pm_proc' = [t \in ProcTasks |-> IF SyncStarts(t) THEN "alive" ELSE pm_proc[t]]
    /\ UNCHANGED <<pm_in_window, pm_type, pm_enabled, pm_api>>

\* the application ends: its daemon processes and its in-memory jobs go
AppShutdown ==
    /\ pm_up
    /\ pm_up' = FALSE
    /\ pm_jobs' = [t \in ProcTasks |-> FALSE]
    /\ pm_proc' = [t \in ProcTasks |-> "none"]
    /\ UNCHANGED <<pm_in_window, pm_type, pm_enabled, pm_status, pm_api>>

\* POST /tasks/{id}/start
start_task(t) ==
    /\ pm_up
    /\ pm_status' = [pm_status EXCEPT ![t] = "running"]
    /\ pm_enabled' = [pm_enabled EXCEPT ![t] = TRUE]
    /\ pm_jobs' = [pm_jobs EXCEPT ![t] = schedule_task(t, TRUE)]
    /\ pm_api' = [pm_api EXCEPT ![t] = "start"]
    /\ UNCHANGED <<pm_up, pm_in_window, pm_type, pm_proc>>

\* POST /tasks/{id}/stop
stop_task(t) ==
    /\ pm_up
    /\ pm_status' = [pm_status EXCEPT ![t] = "stopped"]
    /\ pm_enabled' = [pm_enabled EXCEPT ![t] = FALSE]
    /\ pm_jobs' = [pm_jobs EXCEPT ![t] = schedule_task(t, FALSE)]
    /\ pm_api' = [pm_api EXCEPT ![t] = "stop"]
    /\ UNCHANGED <<pm_up, pm_in_window, pm_type, pm_proc>>

\* the window's start time comes: start_job of every task that has its jobs
WindowOpens ==
    /\ ~pm_in_window
    /\ pm_in_window' = TRUE
    /\ pm_status' = [t \in ProcTasks |-> IF pm_jobs[t] THEN "running" ELSE pm_status[t]]
    /\ pm_proc' = [t \in ProcTasks |->
                      IF pm_jobs[t] THEN start_background_task(pm_proc, t)[t] ELSE pm_proc[t]]
    /\ UNCHANGED <<pm_up, pm_type, pm_enabled, pm_jobs, pm_api>>

\* the window's end time comes: stop_job of every task that has its jobs
WindowCloses ==
    /\ pm_in_window
    /\ pm_in_window' = FALSE
    /\ pm_status' = [t \in ProcTasks |-> IF pm_jobs[t] THEN "stopped" ELSE pm_status[t]]
    /\ pm_proc' = [t \in ProcTasks |->
                      IF pm_jobs[t] THEN stop_background_task(pm_proc, t)[t] ELSE pm_proc[t]]
    /\ UNCHANGED <<pm_up, pm_type, pm_enabled, pm_jobs, pm_api>>

\* the head of the worker's loop: the task is fetched again and the process
\* ends when it is disabled or its status is not 'running'
WorkerPass(t) ==
    /\ pm_proc[t] = "alive"
    /\ ~pm_enabled[t] \/ pm_status[t] # "running"
    /\ pm_proc' = [pm_proc EXCEPT ![t] = "exited"]
    /\ UNCHANGED <<pm_up, pm_in_window, pm_type, pm_enabled, pm_status, pm_jobs, pm_api>>

\* the variables the process model leaves alone
nonProc == <<schedVars, requests, alertVars, frameVars, engineVars, windowVars,
             loopVars, ctorVars, pushVars, captureVars, pathVars, ownVars,
             starveVars>>

\* before the application starts, with the tasks as the store holds them
InitProc ==
    /\ SchedIdle
    /\ AlertIdle
    /\ FrameIdle
    /\ EngineIdle
    /\ WindowIdle
    /\ LoopIdle
    /\ CtorIdle
    /\ PushIdle
    /\ CaptureIdle
    /\ PathIdle
    /\ OwnIdle
    /\ StarveIdle
    /\ pm_up = FALSE
    /\ pm_in_window \in BOOLEAN
    /\ pm_type \in [ProcTasks -> ProcScheduleTypes]
    /\ \E stored \in [ProcTasks -> StoredStates] :
          /\ pm_enabled = [t \in ProcTasks |-> stored[t][1]]
          /\ pm_status = [t \in ProcTasks |-> stored[t][2]]
    /\ pm_jobs = [t \in ProcTasks |-> FALSE]
    /\ pm_proc = [t \in ProcTasks |-> "none"]
    /\ pm_api = [t \in ProcTasks |-> "none"]

NextProc ==
    \/ AppStartup /\ UNCHANGED nonProc
    \/ AppShutdown /\ UNCHANGED nonProc
    \/ \E t \in ProcTasks : start_task(t) /\ UNCHANGED nonProc
    \/ \E t \in ProcTasks : stop_task(t) /\ UNCHANGED nonProc
    \/ WindowOpens /\ UNCHANGED nonProc
    \/ WindowCloses /\ UNCHANGED nonProc
    \/ \E t \in ProcTasks : WorkerPass(t) /\ UNCHANGED nonProc

ProcSpec == InitProc /\ [][NextProc]_vars

\* time passes and a worker that is alive goes round its loop
FairProcSpec ==
    /\ ProcSpec
    /\ WF_vars(WindowOpens /\ UNCHANGED nonProc)
    /\ WF_vars(WindowCloses /\ UNCHANGED nonProc)
    /\ \A t \in ProcTasks : WF_vars(WorkerPass(t) /\ UNCHANGED nonProc)

\* C24: tie-break on sync: after a sync no background worker is alive for a
\* window task whose stored status was "running" while the clock is outside
\* its window
C24_StaleRunningStopped ==
    [][(~pm_up /\ pm_up') =>
          \A t \in ProcTasks :
              (pm_type[t] # "continuous" /\ pm_status[t] = "running" /\ ~pm_in_window)
                  => pm_proc'[t] # "alive"]_vars

\* C30: the start and stop requests take effect on the worker: while the
\* application stays up, after a start request the task's process is
\* eventually alive, after a stop request it is eventually not alive, and
\* no process is started for a task that is disabled
C30_ApiTakesEffect ==
    /\ \A t \in ProcTasks :
          (pm_api[t] = "start") ~> (pm_proc[t] = "alive" \/ pm_api[t] # "start" \/ ~pm_up)
    /\ \A t \in ProcTasks :
          (pm_api[t] = "stop") ~> (pm_proc[t] # "alive" \/ pm_api[t] # "stop")
    /\ [][\A t \in ProcTasks :
             (pm_proc[t] # "alive" /\ pm_proc'[t] = "alive") => pm_enabled'[t]]_vars

(***************************************************************************)
(* Inference engines and their owners: InferenceEngine.detect,             *)
(* _update_performance_stats and release_resources                         *)
(* (src/src/inference/base.py), CPUInference.load_model                    *)
(* (src/src/inference/cpu_inference.py), and the engine of a TaskExecutor  *)
(* from _initialize to stop (src/src/components/task_scheduler.py)         *)
(***************************************************************************)
\* successful detect() calls on one engine in one behaviour
MaxInferences == 2
\* elapsed times of a detect() call, in milliseconds
ElapsedTimes == {1, 2}
OwnExecutors == {1, 2}
\* engine 1 is used on its own; each executor creates one more
StandaloneEngine == 1
EngineIds == 1..(Cardinality(OwnExecutors) + 1)
LoadOutcomes == {"ok", "file_missing", "raises"}
DetectOutcomes == {"ok", "raises"}

\* performance_stats of a new engine; avg_time is kept as the pair
\* <<dividend, divisor>> of its division
NoStats == [total_inferences |-> 0, total_time |-> 0, avg_time |-> <<0, 1>>,
            last_inference_time |-> 0]
NewEngine == [is_loaded |-> FALSE, event |-> "created", performance_stats |-> NoStats]
NoEngine == [is_loaded |-> FALSE, event |-> "none", performance_stats |-> NoStats]

\* a detect() that goes on without a loaded model
UnloadedGoesOn(is_loaded) == FALSE

\* if not self.is_loaded: raise RuntimeError
NotLoadedRaises(is_loaded) == ~is_loaded

update_performance_stats(stats, inference_time) ==
    [total_inferences |-> stats.total_inferences + 1,
     total_time |-> stats.total_time + inference_time,
     last_inference_time |-> inference_time,
     avg_time |-> <<stats.total_time + inference_time, stats.total_inferences + 1>>]

\* load_model: is_loaded becomes True at the end of a successful load and is
\* left as it was when the file is missing or the load raises
LoadedAfter(engine, outcome) ==
    [engine EXCEPT !.is_loaded = IF outcome = "ok" THEN TRUE ELSE @,
                   !.event = IF outcome = "ok" THEN "loaded" ELSE "load_failed"]

\* load_model on the engine used on its own
load_model(outcome) ==
    /\ ee_engines' = [ee_engines EXCEPT ![StandaloneEngine] = LoadedAfter(@, outcome)]
    /\ UNCHANGED <<ee_created, ee_owner, ee_state, ee_last>>

\* release_resources on the engine used on its own
release_resources ==
    /\ ee_engines' = [ee_engines EXCEPT ![StandaloneEngine].is_loaded = FALSE,
                                        ![StandaloneEngine].event = "released"]
    /\ UNCHANGED <<ee_created, ee_owner, ee_state, ee_last>>

\* detect(): raises when the model is not loaded or when preprocess, infer
\* or postprocess raises; otherwise the counters are updated
detect(id, outcome, elapsed) ==
    LET engine == ee_engines[id]
        raised == NotLoadedRaises(engine.is_loaded) \/ outcome = "raises"
        after == IF raised THEN engine.performance_stats
                 ELSE update_performance_stats(engine.performance_stats, elapsed)
    IN  /\ id <= ee_created
        /\ id # StandaloneEngine =>
              \E e \in OwnExecutors : ee_owner[e] = id /\ ee_state[e] = "running"
        /\ engine.performance_stats.total_inferences < MaxInferences
        /\ ee_engines' = [ee_engines EXCEPT ![id].performance_stats = after]
        /\ ee_last' = [engine |-> id, loaded |-> engine.is_loaded, event |-> engine.event,
                       raised |-> raised, elapsed |-> elapsed,
                       before |-> engine.performance_stats, after |-> after]
        /\ UNCHANGED <<ee_created, ee_owner, ee_state>>

\* TaskExecutor._initialize and start: create_engine makes a new instance,
\* load_model loads it; a failed load raises
ExecutorInitialize(e, outcome) ==
    LET id == ee_created + 1
    IN  /\ ee_state[e] = "new"
        /\ ee_created' = id
        /\ ee_owner' = [ee_owner EXCEPT ![e] = id]
        /\ ee_engines' = [ee_engines EXCEPT ![id] = LoadedAfter(NewEngine, outcome)]
        /\ ee_state' = [ee_state EXCEPT ![e] = IF outcome = "ok" THEN "running" ELSE "failed"]
        /\ UNCHANGED ee_last

\* TaskExecutor.stop has returned: is_running is False, the processors are
\* stopped, the thread is joined; the engine is not touched
ExecutorStopped(e) ==
    /\ ee_state[e] = "running"
    /\ ee_state' = [ee_state EXCEPT ![e] = "stopped"]
    /\ UNCHANGED <<ee_created, ee_engines, ee_owner, ee_last>>

\* the variables the engines leave alone
nonOwn == <<schedVars, requests, alertVars, frameVars, engineVars, windowVars,
            loopVars, ctorVars, pushVars, captureVars, pathVars, procVars,
            starveVars>>

\* one engine constructed on its own, two executors not yet initialised
InitOwn ==
    /\ SchedIdle
    /\ AlertIdle
    /\ FrameIdle
    /\ EngineIdle
    /\ WindowIdle
    /\ LoopIdle
    /\ CtorIdle
    /\ PushIdle
    /\ CaptureIdle
    /\ PathIdle
    /\ ProcIdle
    /\ StarveIdle
    /\ ee_created = 1
    /\ ee_engines = [id \in EngineIds |-> IF id = StandaloneEngine THEN NewEngine ELSE NoEngine]
    /\ ee_owner = [e \in OwnExecutors |-> 0]
    /\ ee_state = [e \in OwnExecutors |-> "new"]
    /\ ee_last = [engine |-> 0, loaded |-> FALSE, event |-> "none", raised |-> FALSE,
                  elapsed |-> 0, before |-> NoStats, after |-> NoStats]

NextOwn ==
    \/ \E outcome \in LoadOutcomes : load_model(outcome) /\ UNCHANGED nonOwn
    \/ release_resources /\ UNCHANGED nonOwn
    \/ \E id \in EngineIds, outcome \in DetectOutcomes, elapsed \in ElapsedTimes :
           detect(id, outcome, elapsed) /\ UNCHANGED nonOwn
    \/ \E e \in OwnExecutors, outcome \in LoadOutcomes :
           ExecutorInitialize(e, outcome) /\ UNCHANGED nonOwn
    \/ \E e \in OwnExecutors : ExecutorStopped(e) /\ UNCHANGED nonOwn

EngineOwnSpec == InitOwn /\ [][NextOwn]_vars

\* C25: exclusive ownership and release: no engine is the engine of two
\* executors, and the engine of an executor whose stop() has returned is no
\* longer loaded
C25_OwnedAndReleased ==
    /\ \A e1, e2 \in OwnExecutors :
          (e1 # e2 /\ ee_owner[e1] # 0) => ee_owner[e1] # ee_owner[e2]
    /\ \A e \in OwnExecutors :
          ee_state[e] = "stopped" => ~ee_engines[ee_owner[e]].is_loaded

PassSources == <<"cam1", "cam2", "cam3">>
PassSourceNames == {PassSources[i] : i \in DOMAIN PassSources}

\* `while self.is_running`, current_time = time.time(): the sources that are
\* due are decided by this time for the whole pass
PassTop ==
    /\ sv_pc = "top"
    /\ sv_pc' = "sources"
    /\ sv_todo' = PassSources
    /\ sv_snapshot' = sv_due
    /\ sv_event' = "none"
    /\ UNCHANGED <<sv_due, sv_bad>>

\* one round of the for loop: a source that is not due is skipped; detect or
\* _process_detections raises for the bad source, which ends the for loop in
\* the except branch; otherwise the source is inferred and its
\* last_detection_time set. After the last source, time.sleep(0.1)
PassSource ==
    /\ sv_pc = "sources"
    /\ IF sv_todo = <<>>
       THEN /\ sv_pc' = "pause"
            /\ sv_event' = "none"
            /\ UNCHANGED <<sv_todo, sv_due>>
       ELSE LET source_url == Head(sv_todo)
            IN  IF ~sv_snapshot[source_url]
                THEN /\ sv_todo' = Tail(sv_todo)
                     /\ sv_event' = "none"
                     /\ UNCHANGED <<sv_pc, sv_due>>
                ELSE IF source_url = sv_bad
                THEN /\ sv_pc' = "backoff"
                     /\ sv_todo' = <<>>
                     /\ sv_event' = "none"
                     /\ UNCHANGED sv_due
                ELSE /\ sv_event' = source_url
                     /\ sv_due' = [sv_due EXCEPT ![source_url] = FALSE]
                     /\ sv_todo' = Tail(sv_todo)
                     /\ UNCHANGED sv_pc
    /\ UNCHANGED <<sv_snapshot, sv_bad>>

\* time.sleep(0.1) or time.sleep(1.0) ends
PassWake ==
    /\ sv_pc \in {"pause", "backoff"}
    /\ sv_pc' = "top"
    /\ sv_event' = "none"
    /\ UNCHANGED <<sv_todo, sv_due, sv_snapshot, sv_bad>>

\* inference_interval has passed since the source's last_detection_time
IntervalElapses(source_url) ==
    /\ sv_pc # "none"
    /\ ~sv_due[source_url]
    /\ sv_due' = [sv_due EXCEPT ![source_url] = TRUE]
    /\ sv_event' = "none"
    /\ UNCHANGED <<sv_pc, sv_todo, sv_snapshot, sv_bad>>

\* the variables the passes leave alone
nonStarve == <<schedVars, requests, alertVars, frameVars, engineVars, windowVars,
               loopVars, ctorVars, pushVars, captureVars, pathVars, procVars, ownVars>>

\* the loop has just been started: last_detection_time is 0 for every source
InitStarve ==
    /\ SchedIdle
    /\ AlertIdle
    /\ FrameIdle
    /\ EngineIdle
    /\ WindowIdle
    /\ LoopIdle
    /\ CtorIdle
    /\ PushIdle
    /\ CaptureIdle
    /\ PathIdle
    /\ ProcIdle
    /\ OwnIdle
    /\ sv_pc = "top"
    /\ sv_todo = <<>>
    /\ sv_due = [s \in PassSourceNames |-> TRUE]
    /\ sv_snapshot = [s \in PassSourceNames |-> FALSE]
    /\ sv_bad \in PassSourceNames \cup {"none"}
    /\ sv_event = "none"

NextStarve ==
    \/ PassTop /\ UNCHANGED nonStarve
    \/ PassSource /\ UNCHANGED nonStarve
    \/ PassWake /\ UNCHANGED nonStarve
    \/ \E source_url \in PassSourceNames : IntervalElapses(source_url) /\ UNCHANGED nonStarve

\* the loop's thread runs and time passes
StarveSpec ==
    /\ InitStarve
    /\ [][NextStarve]_vars
    /\ WF_vars(PassTop /\ UNCHANGED nonStarve)
    /\ WF_vars(PassSource /\ UNCHANGED nonStarve)
    /\ WF_vars(PassWake /\ UNCHANGED nonStarve)
    /\ \A source_url \in PassSourceNames :
          WF_vars(IntervalElapses(source_url) /\ UNCHANGED nonStarve)

\* C29: no starvation: every source other than the one whose inference
\* raises on every attempt is inferred infinitely often
C29_NoStarvation ==
    \A source_url \in PassSourceNames :
        (sv_bad # source_url) => []<>(sv_event = source_url)

====
